---- MODULE Spec2Model ----
(***************************************************************************)
(* CKPool log ingestion (ckpool_parser.py): the incremental reader         *)
(* ingest_log, the SQLite store it writes, the worker liveness rows and    *)
(* the wallet snapshot built by CKPoolState.                               *)
(*                                                                         *)
(* Byte offsets are counted in lines: the log grows by whole lines, so the *)
(* offset after k lines is k.  Wall-clock seconds are the integers         *)
(* 1..MaxTime.  A connection is a private view of the store that becomes   *)
(* the committed store on commit and is dropped on close (rollback).       *)
(***************************************************************************)
EXTENDS Integers, Sequences, FiniteSets, TLC

\* ------------------------------------------------------------------ bounds
MaxLines == 3
MaxTime == 4
MaxIngestTime == 2
MaxThreadLines == 1
MaxThreadTime == 2
MaxCrashes == 1
MaxFaults == 1
MaxAnswers == 6
MaxFailLines == 2
MaxBlocks == 3
MaxCand == 4

\* safe_commit(conn, retries = 5, ...)
RETRIES == 5

\* _clean_worker: len(w) > 64
WORKER_MAX == 64

\* WORKER_TIMEOUT = int(os.getenv("WORKER_TIMEOUT", "300")): run with WORKER_TIMEOUT=2
WORKER_TIMEOUT == 2

Time == 1..MaxTime
Procs == {1, 2}

Null == -1
NoTs == 0
\* a bracketed timestamp that the pattern accepts and no format parses
BadTs == 0 - 2
NoWorker == ""
X == "X"

Wallets == {"w1", "w2"}
WorkerNames == {"a", "b"}

\* ------------------------------------------------------------ log lines
\* A line of ckpool.log: its dialect, the bracketed timestamp (NoTs when the
\* line has none, or one no format parses), and the fields of the dialect.
\*   auth/drop: worker is the name after "wallet.", NoWorker for the
\*              wallet-only form
\*   share:     worker is the fragment after "address.", NoWorker if none
\*   user:      workers/shares are payload fields (Null when absent), worker
\*              is the sub-account of the payload's "user" field
\*   pool:      users/workers are payload fields (Null when absent)
\* data holds the further payload fields of a user line: hashrate1m (a number
\* and a unit suffix), lastshare, bestshare and bestever.

\* a hashrate field that is absent
NoHash == [num |-> Null, unit |-> ""]

\* a hashrate string such as "2T"
Hash(num, unit) == [num |-> num, unit |-> unit]

NoData == [h1 |-> NoHash, lastshare |-> Null, best |-> Null, bestever |-> Null]

MkLine(kind, ts, wallet, worker, workers, shares, users, status) ==
    [kind |-> kind, ts |-> ts, wallet |-> wallet, worker |-> worker,
     workers |-> workers, shares |-> shares, users |-> users, status |-> status,
     data |-> NoData, json |-> TRUE, letters |-> "plain", tail |-> ""]

AuthLine(ts, wallet, worker) ==
    MkLine("auth", ts, wallet, worker, Null, Null, Null, "")
DropLine(ts, wallet, worker) ==
    MkLine("drop", ts, wallet, worker, Null, Null, Null, "")
ShareLine(ts, wallet, worker, status) ==
    MkLine("share", ts, wallet, worker, Null, Null, Null, status)
UserLine(ts, wallet, worker, workers, shares) ==
    MkLine("user", ts, wallet, worker, workers, shares, Null, "")
UserLineData(ts, wallet, worker, workers, shares, data) ==
    [UserLine(ts, wallet, worker, workers, shares) EXCEPT !.data = data]
PoolLine(ts, users, workers) ==
    MkLine("pool", ts, "", NoWorker, workers, Null, users, "")
JunkLine == MkLine("junk", NoTs, "", NoWorker, Null, Null, Null, "")

\* a pool or user line whose {...} payload is no JSON
BadJson(line) == [line EXCEPT !.json = FALSE]

\* a share line as it is written: status is the status word of the phrasing,
\* letters tells whether the word is spelled accepted/Accepted/rejected/Rejected
\* ("plain") or in another letter case ("other"), tail is the text after the
\* difficulty
ShareText(ts, wallet, worker, status, letters, tail) ==
    [ShareLine(ts, wallet, worker, status) EXCEPT !.letters = letters, !.tail = tail]

\* ------------------------------------------------------------ the store
\* Each table is the sequence of its rows in rowid (insertion) order; `key` is
\* the primary key.  cursor is the meta row of the log file (Null: no row).
\* applied is a shadow column that counts, per line of the log, how often the
\* line's mutation was written; it is committed and rolled back with the data.
EmptyStore ==
    [pool |-> << >>, users |-> << >>, workers |-> << >>, shares |-> << >>,
     blocks |-> << >>,
     cursor |-> Null, applied |-> [i \in 1..MaxLines |-> 0]]

\* The data tables of a store (everything but the meta table's cursor).
Tables(s) ==
    [pool |-> s.pool, users |-> s.users, workers |-> s.workers, shares |-> s.shares]

RECURSIVE SeqIndex(_, _, _)
\* the first index i >= from of sequence s with s[i].key = key, 0 if none
SeqIndex(s, key, from) ==
    IF from > Len(s) THEN 0
    ELSE IF s[from].key = key THEN from
    ELSE SeqIndex(s, key, from + 1)

\* COALESCE(excluded.c, c)
Coalesce(new, old) == IF new # Null THEN new ELSE old

UpsertPoolMetricsReplace(pool, rec) ==
    LET i == SeqIndex(pool, rec.ts, 1) IN
    IF i = 0
    THEN Append(pool, [key |-> rec.ts, users |-> rec.users, workers |-> rec.workers])
    ELSE [pool EXCEPT ![i].users = rec.users, ![i].workers = rec.workers]

\* INSERT INTO pool_metrics ... ON CONFLICT(ts) DO UPDATE SET c=COALESCE(excluded.c, c)
UpsertPoolMetrics(pool, rec) ==
    LET i == SeqIndex(pool, rec.ts, 1) IN
    IF i = 0
    THEN Append(pool, [key |-> rec.ts, users |-> rec.users, workers |-> rec.workers])
    ELSE [pool EXCEPT ![i].users = Coalesce(rec.users, @),
                      ![i].workers = Coalesce(rec.workers, @)]

\* INSERT INTO user_stats ... ON CONFLICT(address) DO UPDATE SET <every column>
\* key_addr is the payload's "user" when it names a sub-account of the wallet.
\* the bestshare column takes d.get("bestshare") or d.get("bestever").
PyOr(a, b) == IF a # Null /\ a # 0 THEN a ELSE b

UpsertUserStatsMerge(users, rec) ==
    LET key_addr == <<rec.address, rec.sub>>
        row == [key |-> key_addr, ts |-> rec.ts, workers |-> rec.workers,
                shares |-> rec.shares, h1 |-> rec.data.h1,
                lastshare |-> rec.data.lastshare,
                bestshare |-> PyOr(rec.data.best, rec.data.bestever),
                bestever |-> rec.data.bestever]
        i == SeqIndex(users, key_addr, 1)
    IN IF i = 0 THEN Append(users, row)
       ELSE [users EXCEPT ![i] =
                [key |-> key_addr, ts |-> rec.ts,
                 workers |-> Coalesce(rec.workers, @.workers),
                 shares |-> Coalesce(rec.shares, @.shares),
                 h1 |-> IF rec.data.h1 # NoHash THEN rec.data.h1 ELSE @.h1,
                 lastshare |-> Coalesce(rec.data.lastshare, @.lastshare),
                 bestshare |-> Coalesce(row.bestshare, @.bestshare),
                 bestever |-> Coalesce(rec.data.bestever, @.bestever)]]

UpsertUserStats(users, rec) ==
    LET key_addr == <<rec.address, rec.sub>>
        row == [key |-> key_addr, ts |-> rec.ts, workers |-> rec.workers,
                shares |-> rec.shares, h1 |-> rec.data.h1,
                lastshare |-> rec.data.lastshare,
                bestshare |-> PyOr(rec.data.best, rec.data.bestever),
                bestever |-> rec.data.bestever]
        i == SeqIndex(users, key_addr, 1)
    IN IF i = 0 THEN Append(users, row) ELSE [users EXCEPT ![i] = row]

UpsertWorkerSeenFloor(ws, wallet, worker, ts, active) ==
    LET i == SeqIndex(ws, <<wallet, worker>>, 1) IN
    IF i = 0
    THEN Append(ws, [key |-> <<wallet, worker>>, last_seen |-> ts, active |-> active])
    ELSE [ws EXCEPT ![i].last_seen = IF ts > @ THEN ts ELSE @]

\* INSERT INTO workers_seen ... ON CONFLICT(wallet,worker) DO UPDATE SET
\*   last_seen=excluded.last_seen, active=excluded.active
UpsertWorkerSeen(ws, wallet, worker, ts, active) ==
    LET i == SeqIndex(ws, <<wallet, worker>>, 1) IN
    IF i = 0
    THEN Append(ws, [key |-> <<wallet, worker>>, last_seen |-> ts, active |-> active])
    ELSE [ws EXCEPT ![i].last_seen = ts, ![i].active = active]

ExpireStaleWorkersGe(ws, now_ts, timeout_s) ==
    [i \in 1..Len(ws) |->
        IF ws[i].active /\ (now_ts - ws[i].last_seen) >= timeout_s
        THEN [ws[i] EXCEPT !.active = FALSE] ELSE ws[i]]

\* UPDATE workers_seen SET active=0 WHERE active=1 AND (? - last_seen) > ?
ExpireStaleWorkers(ws, now_ts, timeout_s) ==
    [i \in 1..Len(ws) |->
        IF ws[i].active /\ (now_ts - ws[i].last_seen) > timeout_s
        THEN [ws[i] EXCEPT !.active = FALSE] ELSE ws[i]]

\* The rows of ws that satisfy Keep(row), as indices, ordered by last_seen
\* descending; rows with equal last_seen come in rowid order (the scan of
\* idx_workers_wallet feeds the sorter in rowid order).
RECURSIVE ByLastSeenDesc(_, _)
ByLastSeenDesc(ws, idx) ==
    IF idx = {} THEN << >>
    ELSE LET top == CHOOSE i \in idx :
                      \A j \in idx :
                          \/ ws[i].last_seen > ws[j].last_seen
                          \/ ws[i].last_seen = ws[j].last_seen /\ i <= j
         IN <<top>> \o ByLastSeenDesc(ws, idx \ {top})

\* SELECT worker FROM workers_seen WHERE wallet=? ORDER BY last_seen DESC LIMIT 1
\* (the index of the row, 0 when the wallet has no row)
MostRecentWorker(ws, wallet) ==
    LET rows == ByLastSeenDesc(ws, {i \in 1..Len(ws) : ws[i].key[1] = wallet})
    IN IF rows = << >> THEN 0 ELSE rows[1]

\* SELECT worker FROM workers_seen WHERE wallet=? AND active=1 AND last_seen>=?
\* ORDER BY last_seen DESC, with ? = now_ts - timeout_s
ActiveWorkersForWallet(ws, wallet, now_ts, timeout_s) ==
    ByLastSeenDesc(ws, {i \in 1..Len(ws) :
                          /\ ws[i].key[1] = wallet
                          /\ ws[i].active
                          /\ ws[i].last_seen >= now_ts - timeout_s})

\* If the snapshot says workers == 1 and exactly one active name is known,
\* bump its last_seen (and active=1).
RefreshSingleWorkerIfSafe(ws, wallet, workers_count, now_ts, timeout_s) ==
    IF workers_count # 1 THEN ws
    ELSE LET actives == ActiveWorkersForWallet(ws, wallet, now_ts, timeout_s) IN
         IF Len(actives) # 1 THEN ws
         ELSE [ws EXCEPT ![actives[1]].last_seen = now_ts,
                         ![actives[1]].active = TRUE]

\* -------------------------------------------------------- line classifier
\* A classified event; kind "none" is "no match".
MkEv(kind, ts, wallet, worker, workers, shares, users, status) ==
    [kind |-> kind, ts |-> ts, wallet |-> wallet, worker |-> worker,
     workers |-> workers, shares |-> shares, users |-> users, status |-> status,
     data |-> NoData]

NoEvent == MkEv("none", NoTs, "", NoWorker, Null, Null, Null, "")

\* parse_bracket_ts: the bracketed timestamp, or the wall clock when it is
\* absent or unparseable
ParseBracketTs(v, clock) == IF v \in {NoTs, BadTs} THEN clock ELSE v

\* ---- _clean_worker on text: a text is a sequence of characters
\* the characters of WORKER_RE that the texts of the model use (letters,
\* digits and the dot), against the blank and "!" outside the class
ClassChars == {"r", "a", "b", "X", "w", "1", "2", "."}

XText == <<"X">>

\* s.strip(". "): blanks and dots taken off both ends
RECURSIVE StripLeft(_)
StripLeft(w) ==
    IF w # << >> /\ Head(w) \in {".", " "} THEN StripLeft(Tail(w)) ELSE w

RECURSIVE StripRight(_)
StripRight(w) ==
    IF w # << >> /\ w[Len(w)] \in {".", " "}
    THEN StripRight(SubSeq(w, 1, Len(w) - 1)) ELSE w

StripEdges(w) == StripRight(StripLeft(w))

\* "..." in w
HasThreeDots(w) ==
    \E i \in 1..(Len(w) - 2) : w[i] = "." /\ w[i + 1] = "." /\ w[i + 2] = "."

CleanWorkerTextNoStrip(worker, wallet) ==
    IF worker = << >> \/ worker = wallet \/ HasThreeDots(worker)
       \/ Len(worker) > WORKER_MAX
    THEN XText
    ELSE IF \A i \in 1..Len(worker) : worker[i] \in ClassChars THEN worker ELSE XText

\* _clean_worker (the candidate is a string, as the patterns deliver it)
CleanWorkerText(worker, wallet) ==
    LET w == StripEdges(worker) IN
    IF w = << >> \/ w = wallet \/ HasThreeDots(w) \/ Len(w) > WORKER_MAX
    THEN XText
    ELSE IF \A i \in 1..Len(w) : w[i] \in ClassChars THEN w ELSE XText

\* the text of the names that the log lines of the model use
Chars(name) ==
    CASE name = "" -> << >>
      [] name = "a" -> <<"a">>
      [] name = "b" -> <<"b">>
      [] name = "X" -> <<"X">>
      [] name = "w1" -> <<"w", "1">>
      [] name = "w2" -> <<"w", "2">>

NameOf(text) == CHOOSE name \in {"", "a", "b", "X", "w1", "w2"} : Chars(name) = text

\* _clean_worker on the names of the log lines
CleanWorker(worker, wallet) == NameOf(CleanWorkerText(Chars(worker), Chars(wallet)))

ParsePoolJsonLineLenient(line, clock) ==
    IF line.kind # "pool" THEN NoEvent
    ELSE MkEv("pool", ParseBracketTs(line.ts, clock), "", NoWorker,
              line.workers, Null, line.users, "")

\* POOL_JSON_RE, then json.loads of the payload (None when it fails)
ParsePoolJsonLine(line, clock) ==
    IF line.kind # "pool" \/ ~line.json THEN NoEvent
    ELSE MkEv("pool", ParseBracketTs(line.ts, clock), "", NoWorker,
              line.workers, Null, line.users, "")

\* wallet is the regex's addr; worker carries the sub-account of data["user"]
ParseUserLine(line, clock) ==
    IF line.kind # "user" \/ ~line.json THEN NoEvent
    ELSE [MkEv("user", ParseBracketTs(line.ts, clock), line.wallet, line.worker,
               line.workers, line.shares, Null, "") EXCEPT !.data = line.data]

\* AUTH_RE (wallet.worker) first, then _AUTH_NO_WORKER_RE (wallet only -> "X")
ParseAuthorisedLine(line, clock) ==
    IF line.kind # "auth" THEN NoEvent
    ELSE IF line.worker # NoWorker
    THEN MkEv("auth", ParseBracketTs(line.ts, clock), line.wallet,
              CleanWorker(line.worker, line.wallet), Null, Null, Null, "")
    ELSE MkEv("auth", ParseBracketTs(line.ts, clock), line.wallet, X,
              Null, Null, Null, "")

\* DROP_RE first, then _DROP_NO_WORKER_RE
ParseDroppedLine(line, clock) ==
    IF line.kind # "drop" THEN NoEvent
    ELSE IF line.worker # NoWorker
    THEN MkEv("drop", ParseBracketTs(line.ts, clock), line.wallet,
              CleanWorker(line.worker, line.wallet), Null, Null, Null, "")
    ELSE MkEv("drop", ParseBracketTs(line.ts, clock), line.wallet, X,
              Null, Null, Null, "")

\* line 358: "Accepted" in s or "accepted" in s, on the whole line
HasAccepted(line) ==
    \/ line.status = "accepted" /\ line.letters = "plain"
    \/ line.worker = "accepted"
    \/ line.tail = "accepted"

StatusOfPhrase(line) == line.status

\* line 358: the status of a share event
StatusOf(line) == IF HasAccepted(line) THEN "accepted" ELSE "rejected"

\* the id splits at its first dot into address and worker fragment
ParseShareLine(line, clock) ==
    IF line.kind # "share" THEN NoEvent
    ELSE MkEv("share", ParseBracketTs(line.ts, clock), line.wallet, line.worker,
              Null, Null, Null, StatusOf(line))

\* ------------------------------------------------- one line of ingest_log
\* Which of the (up to three) store statements a line issues succeed; a
\* statement that raises is caught by the try block around it.
Outcomes == [w1 : BOOLEAN, w2 : BOOLEAN, w3 : BOOLEAN]
AllOk == [w1 |-> TRUE, w2 |-> TRUE, w3 |-> TRUE]

\* did a statement that the line of event e issues raise
Raised(e, oc) ==
    /\ e.kind # "none"
    /\ \/ ~oc.w1
       \/ e.kind = "share" /\ e.worker # NoWorker /\ ~oc.w2
       \/ e.kind = "user" /\ (~oc.w2 \/ ~oc.w3)

Bump(s, idx) == [s EXCEPT !.applied[idx] = @ + 1]

\* lines 507-520: if the snapshot reports workers > 0, re-assert the most
\* recently seen worker of the wallet as active at the snapshot's timestamp
BumpMostRecent(ws, usr) ==
    IF usr.workers # Null /\ usr.workers > 0
    THEN LET i == MostRecentWorker(ws, usr.wallet) IN
         IF i = 0 THEN ws
         ELSE UpsertWorkerSeen(ws, usr.wallet, ws[i].key[2], usr.ts, TRUE)
    ELSE ws

\* The body of the read loop for line number idx (lines 486-567): the store
\* after it, whether the line was counted in n, and the event it classified.
ApplyLine(s, idx, line, clock, oc) ==
    LET pj == ParsePoolJsonLine(line, clock)
        usr == ParseUserLine(line, clock)
        auth == ParseAuthorisedLine(line, clock)
        drop == ParseDroppedLine(line, clock)
        share == ParseShareLine(line, clock)
    IN
    IF pj.kind # "none" THEN
        [s |-> IF oc.w1 THEN Bump([s EXCEPT !.pool = UpsertPoolMetrics(@, pj)], idx)
               ELSE s,
         counted |-> 1, ev |-> pj]
    ELSE IF usr.kind # "none" THEN
        LET s1 == IF oc.w1
                  THEN Bump([s EXCEPT !.users = UpsertUserStats(@,
                                [address |-> usr.wallet, sub |-> usr.worker,
                                 ts |-> usr.ts, workers |-> usr.workers,
                                 shares |-> usr.shares, data |-> usr.data])], idx)
                  ELSE s
            s2 == IF oc.w2 THEN [s1 EXCEPT !.workers = BumpMostRecent(@, usr)]
                  ELSE s1
            s3 == IF oc.w3
                  THEN [s2 EXCEPT !.workers = RefreshSingleWorkerIfSafe(
                                      @, usr.wallet, usr.workers, usr.ts, WORKER_TIMEOUT)]
                  ELSE s2
        IN [s |-> s3, counted |-> IF oc.w1 THEN 1 ELSE 0, ev |-> usr]
    ELSE IF auth.kind # "none" THEN
        [s |-> IF oc.w1
               THEN Bump([s EXCEPT !.workers = UpsertWorkerSeen(
                              @, auth.wallet, auth.worker, auth.ts, TRUE)], idx)
               ELSE s,
         counted |-> IF oc.w1 THEN 1 ELSE 0, ev |-> auth]
    ELSE IF drop.kind # "none" THEN
        [s |-> IF oc.w1
               THEN Bump([s EXCEPT !.workers = UpsertWorkerSeen(
                              @, drop.wallet, drop.worker, drop.ts, FALSE)], idx)
               ELSE s,
         counted |-> IF oc.w1 THEN 1 ELSE 0, ev |-> drop]
    ELSE IF share.kind # "none" THEN
        LET s1 == IF oc.w1
                  THEN Bump([s EXCEPT !.shares = Append(@,
                                [ts |-> share.ts, status |-> share.status,
                                 address |-> share.wallet, worker |-> share.worker])],
                            idx)
                  ELSE s
            s2 == IF oc.w1 /\ oc.w2 /\ share.worker # NoWorker
                  THEN [s1 EXCEPT !.workers = UpsertWorkerSeen(
                              @, share.wallet, share.worker, share.ts, TRUE)]
                  ELSE s1
        IN [s |-> s2,
            counted |-> IF oc.w1 /\ (share.worker = NoWorker \/ oc.w2) THEN 1 ELSE 0,
            ev |-> share]
    ELSE [s |-> s, counted |-> 0, ev |-> NoEvent]

\* ingest_log on a whole file without a failing statement: the lines from
\* offset `from` on, applied in file order at one clock reading.
RECURSIVE IngestAll(_, _, _, _)
IngestAll(s, lines, from, clock) ==
    IF from >= Len(lines) THEN s
    ELSE IngestAll(ApplyLine(s, from + 1, lines[from + 1], clock, AllOk).s,
                   lines, from + 1, clock)

\* ------------------------------------------------------ snapshot builder
NoPool == [key |-> Null, users |-> Null, workers |-> Null]

\* CKPoolState.__init__: {"pool": {}, "users": []}, no totals yet
EmptySnapshot ==
    [pool |-> NoPool, users |-> << >>,
     totals |-> [workers_count |-> Null, users_count |-> Null]]

RECURSIVE SumSeq(_)
SumSeq(q) == IF q = << >> THEN 0 ELSE Head(q) + SumSeq(Tail(q))

RECURSIVE MaxSeq(_)
MaxSeq(q) ==
    IF q = << >> THEN 0
    ELSE LET m == MaxSeq(Tail(q)) IN IF Head(q) > m THEN Head(q) ELSE m

\* int(v or 0)
IntOr0(v) == IF v = Null THEN 0 ELSE v

\* SELECT ... FROM pool_metrics ORDER BY ts DESC LIMIT 1
GetPoolSnapshot(pool) ==
    IF pool = << >> THEN NoPool
    ELSE pool[CHOOSE i \in 1..Len(pool) : \A j \in 1..Len(pool) : pool[i].key >= pool[j].key]

\* UNIT_MAP, with hashrates counted in units of 1e9 H/s
UnitMap(unit) ==
    CASE unit = "G" -> 1
      [] unit = "T" -> 1000
      [] unit = "P" -> 1000000
      [] unit = "E" -> 1000000000

\* _parse_hashrate_to_hs of a stored hashrate field (v or 0)
ParseHashrateToHs(v) == IF v.num = Null THEN 0 ELSE v.num * UnitMap(v.unit)

\* f"{hs/m:.2f}{u}": the quotient rounded to two decimals, and the unit
Render2(hs, m, u) ==
    LET q == (hs * 100 + m \div 2) \div m
    IN [whole |-> q \div 100, frac |-> q % 100, unit |-> u]

\* _human_hashrate: the first unit, from E down, that the value reaches
HumanHashrate(hs) ==
    IF hs >= UnitMap("E") THEN Render2(hs, UnitMap("E"), "E")
    ELSE IF hs >= UnitMap("P") THEN Render2(hs, UnitMap("P"), "P")
    ELSE IF hs >= UnitMap("T") THEN Render2(hs, UnitMap("T"), "T")
    ELSE IF hs >= UnitMap("G") THEN Render2(hs, UnitMap("G"), "G")
    ELSE [whole |-> 0, frac |-> Null, unit |-> ""]

\* the unknown-value placeholder
Dash == [whole |-> Null, frac |-> Null, unit |-> "-"]

\* the address strings of a wallet in ascending order: the bare wallet, then
\* its wallet.worker addresses
SubOrder == <<"", "X", "a", "b">>

\* lines 815-826: the user_stats rows of a wallet (its own address and its
\* wallet.worker addresses) in the order the query returns them, which is the
\* order of the address index
RowsOfWallet(users, wallet) ==
    LET subs == SelectSeq(SubOrder, LAMBDA w : SeqIndex(users, <<wallet, w>>, 1) # 0)
    IN [k \in 1..Len(subs) |-> users[SeqIndex(users, <<wallet, subs[k]>>, 1)]]

Max2(a, b) == IF a >= b THEN a ELSE b

\* lines 833-843: the first record of a wallet seeds its aggregate
SeedAgg(r) ==
    [ts |-> r.ts,
     h1_sum |-> ParseHashrateToHs(r.h1),
     lastshare |-> PyOr(r.lastshare, r.ts),
     workers_reported |-> IntOr0(r.workers),
     shares |-> IntOr0(r.shares),
     bestshare |-> PyOr(r.bestshare, 0)]

\* lines 844-860: a further record of the wallet is folded in
StepAgg(cur, r) ==
    [ts |-> IF PyOr(r.ts, 0) # 0 /\ r.ts > PyOr(cur.ts, 0) THEN r.ts ELSE cur.ts,
     h1_sum |-> cur.h1_sum + ParseHashrateToHs(r.h1),
     lastshare |-> IF PyOr(r.lastshare, 0) # 0 /\ r.lastshare > PyOr(cur.lastshare, 0)
                   THEN r.lastshare ELSE cur.lastshare,
     workers_reported |-> Max2(cur.workers_reported, IntOr0(r.workers)),
     shares |-> cur.shares + IntOr0(r.shares),
     bestshare |-> Max2(PyOr(cur.bestshare, 0), PyOr(r.bestshare, 0))]

RECURSIVE FoldAgg(_, _)
FoldAgg(cur, rows) ==
    IF rows = << >> THEN cur ELSE FoldAgg(StepAgg(cur, Head(rows)), Tail(rows))

\* lines 830-877: per_wallet[wallet] for a wallet that has records
AggRows(rows) ==
    LET agg == FoldAgg(SeedAgg(Head(rows)), Tail(rows))
    IN [ts |-> agg.ts,
        hashrate1m |-> IF agg.h1_sum > 0 THEN HumanHashrate(agg.h1_sum) ELSE Dash,
        lastshare |-> agg.lastshare,
        workers_cnt |-> agg.workers_reported,
        shares |-> agg.shares,
        bestshare |-> agg.bestshare]

\* lines 879-888 and 903-910: the names of the wallet's workers_seen rows with
\* last_seen >= now - WORKER_TIMEOUT, most recent first, without repetition
RECURSIVE DedupNames(_, _)
DedupNames(names, seen) ==
    IF names = << >> THEN << >>
    ELSE IF Head(names) = "" \/ Head(names) \in seen
    THEN DedupNames(Tail(names), seen)
    ELSE <<Head(names)>> \o DedupNames(Tail(names), seen \cup {Head(names)})

SeenNames(ws, wallet, now_ts) ==
    LET idx == ByLastSeenDesc(ws, {i \in 1..Len(ws) :
                   /\ ws[i].key[1] = wallet
                   /\ ws[i].last_seen >= now_ts - WORKER_TIMEOUT})
    IN DedupNames([k \in 1..Len(idx) |-> ws[idx[k]].key[2]], {})

EffectiveWorkersReportedFirst(seen_names, fallback, has_snap) ==
    IF fallback # 0 THEN fallback
    ELSE IF seen_names # << >> THEN Len(seen_names)
    ELSE IF has_snap THEN 1 ELSE 0

\* line 926: the "workers" field of a row
EffectiveWorkers(seen_names, fallback, has_snap) ==
    IF seen_names # << >> THEN Len(seen_names)
    ELSE IF fallback # 0 THEN fallback
    ELSE IF has_snap THEN 1 ELSE 0

\* lines 898-928: the row of one wallet
WalletRow(s, wallet, now_ts) ==
    LET rows == RowsOfWallet(s.users, wallet)
        has_snap == rows # << >>
        snap == AggRows(rows)
        seen_names == SeenNames(s.workers, wallet, now_ts)
        workers_count_fallback == IF has_snap THEN snap.workers_cnt ELSE 0
    IN [wallet |-> wallet,
        active_workers |-> seen_names,
        shares |-> IF has_snap THEN snap.shares ELSE 0,
        lastshare |-> IF has_snap THEN PyOr(snap.lastshare, snap.ts) ELSE Null,
        hashrate1m |-> IF has_snap THEN snap.hashrate1m ELSE Dash,
        bestshare |-> IF has_snap THEN snap.bestshare ELSE Null,
        workers |-> EffectiveWorkers(seen_names, workers_count_fallback, has_snap)]

\* the wallets in the order of the final sort (by wallet string; the rows of
\* the model carry no 5-minute hashrate to sort by first)
WalletOrder == <<"w1", "w2">>

PresentWalletsStatsOnly(s, now_ts) ==
    SelectSeq(WalletOrder, LAMBDA w : RowsOfWallet(s.users, w) # << >>)

\* line 899: the keys of per_wallet and of active_by_wallet, in the order of
\* the final sort
PresentWallets(s, now_ts) ==
    SelectSeq(WalletOrder, LAMBDA w :
        \/ RowsOfWallet(s.users, w) # << >>
        \/ \E i \in 1..Len(s.workers) :
              /\ s.workers[i].key[1] = w
              /\ s.workers[i].last_seen >= now_ts - WORKER_TIMEOUT)

\* lines 804-954 of _build_from_log, on the view s of the connection
BuildSnapshot(s, now_ts) ==
    LET present == PresentWallets(s, now_ts)
        users == [k \in 1..Len(present) |-> WalletRow(s, present[k], now_ts)]
        by_names == SumSeq([k \in 1..Len(users) |-> Len(users[k].active_workers)])
    IN [pool |-> GetPoolSnapshot(s.pool),
        users |-> users,
        totals |-> [workers_count |-> IF by_names # 0 THEN by_names
                                      ELSE SumSeq([k \in 1..Len(users) |-> users[k].workers]),
                    users_count |-> Len(users)]]

GetStartZero(s, from_bytes) == from_bytes

\* lines 464-467: from_bytes = 0 means "resume at the saved cursor, if any"
GetStart(s, from_bytes) ==
    IF from_bytes = 0 /\ s.cursor # Null THEN s.cursor ELSE from_bytes

\* line 578, set_meta: the cursor row is written in the connection's
\* transaction and committed with whatever that transaction still holds
SetMeta(s, val) == [s EXCEPT !.cursor = val]

TellSize(position, size) == size

\* line 576, f.tell(): the offset the reader stands at (not the file's size)
Tell(position, size) == position

CommitMetaOnly(d, v) == [d EXCEPT !.cursor = v.cursor]

\* conn.commit(): the store after the commit of a connection whose view is v
CommitStore(d, v) == v

\* ------------------------------------------------------------------ state
VARIABLES
    log,        \* the log file, a sequence of lines
    now,        \* the wall clock, in seconds
    db,         \* the committed store
    conn,       \* per process: its connection (open transaction and its view)
    pc,         \* per process: where it stands
    from,       \* per process: the offset its ingest_log call started at
    pos,        \* per process: the read offset of its ingest_log call
    n,          \* per process: the event count of its ingest_log call
    ev,         \* per process: the event of the line it processed last
    okw,        \* per process: did every statement of that line succeed
    failed,     \* the lines one of whose statements raised in some call
    crashes,    \* how many calls died (crash or exception) so far
    last_refresh_ts, \* CKPoolState._last_refresh_ts
    snapshot,   \* CKPoolState._snapshot
    tnow,       \* per thread: the clock reading of its refresh() call
    bnow,       \* per thread: the clock reading of its _build_from_log()
    res,        \* per thread: the snapshot its _build_from_log() returns
    builds,     \* per second: how many rebuilds refresh() started for it
    status_url, \* CKPoolState.status_url is set (remote-status mode)
    resp,       \* per thread: the HTTP response its fetch met
    entry,      \* per thread: the cached snapshot when its refresh() began
    upserted,   \* the block records upserted so far, in order
    attempts,   \* what the store answers to the successive attempts of a write
    stmt,       \* the write that ingestion issues
    wres,       \* the outcome of that write
    cand,       \* the worker candidate and the wallet of a _clean_worker call
    cleaned,    \* what that call returned
    ret         \* per thread: its snapshot() call (under way, returned value)

stateVars == <<last_refresh_ts, snapshot, tnow, bnow, res, builds>>
callVars == <<cand, cleaned>>
auxVars == <<status_url, resp, entry, upserted, attempts, stmt, wres, callVars, ret>>
vars == <<log, now, db, conn, pc, from, pos, n, ev, okw, failed, crashes, stateVars,
          auxVars>>

Closed == [open |-> FALSE, v |-> EmptyStore]

\* what process p reads: its own uncommitted writes, else the committed store
View(p) == IF conn[p].open THEN conn[p].v ELSE db

\* no snapshot() call made
NoRet == [inside |-> FALSE, val |-> EmptySnapshot]

\* no _clean_worker call made
NoCall == [worker |-> << >>, wallet |-> << >>]

\* no HTTP response met, no write issued
NoResp == "none"
NoResult == [result |-> "none", tries |-> 0]
Answers == {"ok", "locked", "error"}
Stmts == {"upsert", "share", "commit", "cursor"}

InitBase ==
    /\ log = << >>
    /\ now = 1
    /\ db = EmptyStore
    /\ conn = [p \in Procs |-> Closed]
    /\ pc = [p \in Procs |-> "idle"]
    /\ from = [p \in Procs |-> 0]
    /\ pos = [p \in Procs |-> 0]
    /\ n = [p \in Procs |-> 0]
    /\ ev = [p \in Procs |-> NoEvent]
    /\ okw = [p \in Procs |-> FALSE]
    /\ failed = {}
    /\ crashes = 0
    /\ last_refresh_ts = 0
    /\ snapshot = EmptySnapshot
    /\ tnow = [p \in Procs |-> 0]
    /\ bnow = [p \in Procs |-> 0]
    /\ res = [p \in Procs |-> EmptySnapshot]
    /\ builds = [t \in Time |-> 0]
    /\ resp = [p \in Procs |-> NoResp]
    /\ entry = [p \in Procs |-> EmptySnapshot]
    /\ upserted = << >>
    /\ wres = NoResult
    /\ cand = NoCall
    /\ cleaned = << >>
    /\ ret = [p \in Procs |-> NoRet]

\* a new database and a CKPoolState in log mode
Init ==
    /\ InitBase
    /\ status_url = FALSE
    /\ attempts = [i \in 1..MaxAnswers |-> "ok"]
    /\ stmt = "commit"

\* ------------------------------------------------------------ environment
\* ckpool stamps a line with the second it writes it, or writes no timestamp.
LinesIngest(clock) ==
    { AuthLine(clock, "w1", "a"), AuthLine(clock, "w1", "b"),
      AuthLine(clock, "w1", NoWorker), AuthLine(NoTs, "w1", "a"),
      DropLine(clock, "w1", "a"), DropLine(clock, "w1", NoWorker),
      ShareLine(clock, "w1", "a", "accepted"),
      ShareLine(NoTs, "w1", NoWorker, "accepted"),
      UserLine(clock, "w1", NoWorker, 1, 5),
      PoolLine(clock, 1, Null),
      JunkLine }

LinesFaults(clock) ==
    { AuthLine(clock, "w1", "a"), AuthLine(clock, "w1", "b"),
      ShareLine(clock, "w1", "a", "accepted"),
      UserLine(clock, "w1", NoWorker, 1, 5),
      JunkLine }

\* ckpool appends one whole line to the log
AppendLine(lines, max) ==
    /\ Len(log) < max
    /\ \E line \in lines : log' = Append(log, line)
    /\ UNCHANGED <<now, db, conn, pc, from, pos, n, ev, okw, failed, crashes, stateVars, auxVars>>

Tick(max) ==
    /\ now < max
    /\ now' = now + 1
    /\ UNCHANGED <<log, db, conn, pc, from, pos, n, ev, okw, failed, crashes, stateVars, auxVars>>

\* ------------------------------------------------------------- ingest_log
\* lines 462-475: init_db, the cursor lookup and the seek (from_bytes = 0)
IngestBegin(p) ==
    /\ pc[p] = "idle"
    /\ pc' = [pc EXCEPT ![p] = "read"]
    /\ from' = [from EXCEPT ![p] = GetStart(View(p), 0)]
    /\ pos' = [pos EXCEPT ![p] = GetStart(View(p), 0)]
    /\ n' = [n EXCEPT ![p] = 0]
    /\ UNCHANGED <<log, now, db, conn, ev, okw, failed, crashes, stateVars, auxVars>>

\* lines 477-567: one round of the read loop on a line that is there
IngestLine(p, outcomes) ==
    /\ pc[p] = "read"
    /\ pos[p] < Len(log)
    /\ \E oc \in outcomes :
         /\ oc # AllOk => Cardinality(failed) < MaxFaults
         /\ LET r == ApplyLine(View(p), pos[p] + 1, log[pos[p] + 1], now, oc) IN
           /\ conn' = [conn EXCEPT ![p] =
                          IF r.s # View(p) THEN [open |-> TRUE, v |-> r.s] ELSE @]
           /\ n' = [n EXCEPT ![p] = @ + r.counted]
           /\ ev' = [ev EXCEPT ![p] = r.ev]
           /\ okw' = [okw EXCEPT ![p] = (r.ev.kind # "none" /\ ~Raised(r.ev, oc))]
           /\ failed' = IF Raised(r.ev, oc) THEN failed \cup {pos[p] + 1} ELSE failed
    /\ pos' = [pos EXCEPT ![p] = @ + 1]
    /\ UNCHANGED <<log, now, db, pc, from, crashes, stateVars, auxVars>>

\* lines 478-480 and 569-576: readline meets the end of the file, then the one
\* safe_commit of the call, whose failure is swallowed, then f.tell()
IngestCommit(p) ==
    /\ pc[p] = "read"
    /\ pos[p] >= Len(log)
    /\ \/ /\ db' = CommitStore(db, View(p))
          /\ conn' = [conn EXCEPT ![p] = Closed]
       \/ /\ conn[p].open
          /\ UNCHANGED <<db, conn>>
    /\ pc' = [pc EXCEPT ![p] = "meta"]
    /\ UNCHANGED <<log, now, from, pos, n, ev, okw, failed, crashes, stateVars, auxVars>>

\* the process ends: its connection closes and rolls back what is uncommitted
Exit(p) ==
    /\ conn' = [conn EXCEPT ![p] = Closed]
    /\ pc' = [pc EXCEPT ![p] = "idle"]
    /\ from' = [from EXCEPT ![p] = 0]
    /\ pos' = [pos EXCEPT ![p] = 0]
    /\ n' = [n EXCEPT ![p] = 0]
    /\ ev' = [ev EXCEPT ![p] = NoEvent]
    /\ okw' = [okw EXCEPT ![p] = FALSE]

IngestSetMeta(p, mayRaise) ==
    /\ pc[p] = "meta"
    /\ \/ /\ db' = CommitStore(db, SetMeta(View(p), Tell(pos[p], Len(log))))
          /\ conn' = [conn EXCEPT ![p] = Closed]
          /\ pc' = [pc EXCEPT ![p] = "done"]
          /\ UNCHANGED <<from, pos, n, ev, okw, crashes>>
       \/ \* the INSERT or its commit stays locked: set_meta raises, and the
          \* exception leaves ingest_log and ends the command
          /\ mayRaise
          /\ crashes < MaxCrashes
          /\ crashes' = crashes + 1
          /\ Exit(p)
          /\ UNCHANGED db
    /\ UNCHANGED <<log, now, failed, stateVars, auxVars>>

\* _cmd_ingest prints the count and the cursor, and the command ends
IngestReturn(p) ==
    /\ pc[p] = "done"
    /\ Exit(p)
    /\ UNCHANGED <<log, now, db, failed, crashes, stateVars, auxVars>>

\* the process is killed in the middle of a call
Crash(p) ==
    /\ pc[p] \in {"read", "meta"}
    /\ crashes < MaxCrashes
    /\ crashes' = crashes + 1
    /\ Exit(p)
    /\ UNCHANGED <<log, now, db, failed, stateVars, auxVars>>

\* ------------------------------------------------- writes under contention
\* att[i] is what the i-th attempt on the connection meets: "ok" (the store is
\* unlocked), "locked" (sqlite raises "database is locked" once its busy
\* timeout is over) or "error" (another OperationalError).
\* The result of a write: how it ended and after how many attempts.
WriteResult(result, tries) == [result |-> result, tries |-> tries]

\* safe_commit: conn.commit() up to RETRIES times, sleeping after a locked one
RECURSIVE SafeCommitFrom(_, _, _)
SafeCommitFrom(att, first, i) ==
    IF i > RETRIES THEN WriteResult("locked", RETRIES)
    ELSE IF att[first + i - 1] = "ok" THEN WriteResult("ok", i)
    ELSE IF att[first + i - 1] = "locked" THEN SafeCommitFrom(att, first, i + 1)
    ELSE WriteResult("error", i)

SafeCommit(att, first) == SafeCommitFrom(att, first, 1)

\* conn.execute(...): one attempt
Execute(att, first) == WriteResult(att[first], 1)

\* set_meta: the INSERT by conn.execute, then safe_commit
SetMetaWrite(att) ==
    LET ins == Execute(att, 1) IN
    IF ins.result # "ok" THEN ins
    ELSE LET c == SafeCommit(att, 2) IN WriteResult(c.result, 1 + c.tries)

\* the call that ingest_log makes for each of its writes: the upserts of a
\* line and the share INSERT go through conn.execute (lines 489-566), the data
\* commit through safe_commit (line 571), the cursor through set_meta (578)
RunWrite(statement, att) ==
    CASE statement = "upsert" -> Execute(att, 1)
      [] statement = "share" -> Execute(att, 1)
      [] statement = "commit" -> SafeCommit(att, 1)
      [] statement = "cursor" -> SetMetaWrite(att)

\* one write of an ingestion, against a store whose lock comes and goes
InitRetry ==
    /\ InitBase
    /\ status_url = FALSE
    /\ attempts \in [1..MaxAnswers -> Answers]
    /\ stmt \in Stmts

IssueWrite ==
    /\ wres = NoResult
    /\ wres' = RunWrite(stmt, attempts)
    /\ UNCHANGED <<log, now, db, conn, pc, from, pos, n, ev, okw, failed, crashes,
                   stateVars, status_url, resp, entry, upserted, attempts, stmt, callVars, ret>>

NextRetry == IssueWrite

SpecRetry == InitRetry /\ [][NextRetry]_vars

\* ------------------------------------------------------------ _clean_worker
\* the characters of a candidate: a letter, the dot, the blank, and a
\* character outside the worker class
CandChars == {"r", ".", " ", "!"}

RECURSIVE Rep(_, _)
Rep(c, k) == IF k = 0 THEN << >> ELSE <<c>> \o Rep(c, k - 1)

\* the candidates: every text of up to MaxCand characters, and texts around
\* the length limit, with and without a dot at their ends
Candidates ==
    UNION {[1..m -> CandChars] : m \in 0..MaxCand}
    \cup { pre \o Rep("r", k) \o suf :
              k \in {WORKER_MAX - 1, WORKER_MAX, WORKER_MAX + 1},
              pre \in {<< >>, <<".">>}, suf \in {<< >>, <<".">>} }

\* the wallet of the call
WalletText == <<"r", "r">>

\* a call of _clean_worker
CleanCall ==
    /\ \E c \in Candidates :
         /\ cand' = [worker |-> c, wallet |-> WalletText]
         /\ cleaned' = CleanWorkerText(c, WalletText)
    /\ UNCHANGED <<log, now, db, conn, pc, from, pos, n, ev, okw, failed, crashes,
                   stateVars, status_url, resp, entry, upserted, attempts, stmt, wres, ret>>

NextClean == CleanCall

SpecClean == Init /\ [][NextClean]_vars

\* ---------------------------------------------------- ingest_blocks_ledger
\* a record of the ledger file, as the format parsers hand it on; block hashes
\* and addresses are numbered
BlockRec(height, blockhash, ts, reward_btc, txid, address) ==
    [height |-> height, blockhash |-> blockhash, ts |-> ts,
     reward_btc |-> reward_btc, txid |-> txid, address |-> address]

BlockRecs ==
    { BlockRec(h, bh, Null, rw, Null, ad) :
        h \in {1, 2}, bh \in {Null, 1, 2}, rw \in {Null, 3}, ad \in {Null, 1} }

\* INSERT INTO blocks ... ON CONFLICT(height) DO UPDATE SET
\* c=COALESCE(excluded.c, blocks.c)
UpsertBlock(blocks, rec) ==
    LET i == SeqIndex(blocks, rec.height, 1) IN
    IF i = 0
    THEN Append(blocks, [key |-> rec.height, blockhash |-> rec.blockhash, ts |-> rec.ts,
                         reward_btc |-> rec.reward_btc, txid |-> rec.txid,
                         address |-> rec.address])
    ELSE [blocks EXCEPT ![i].blockhash = Coalesce(rec.blockhash, @),
                        ![i].ts = Coalesce(rec.ts, @),
                        ![i].reward_btc = Coalesce(rec.reward_btc, @),
                        ![i].txid = Coalesce(rec.txid, @),
                        ![i].address = Coalesce(rec.address, @)]

\* line 638: init_db on the caller's connection
LedgerBegin(p) ==
    /\ pc[p] = "idle"
    /\ pc' = [pc EXCEPT ![p] = "ledger"]
    /\ n' = [n EXCEPT ![p] = 0]
    /\ UNCHANGED <<log, now, db, conn, from, pos, ev, okw, failed, crashes, stateVars, auxVars>>

\* lines 641-649: one record of the file is upserted and counted
LedgerUpsert(p) ==
    /\ pc[p] = "ledger"
    /\ Len(upserted) < MaxBlocks
    /\ \E rec \in BlockRecs :
         /\ conn' = [conn EXCEPT ![p] =
                        [open |-> TRUE,
                         v |-> [View(p) EXCEPT !.blocks = UpsertBlock(@, rec)]]]
         /\ upserted' = Append(upserted, rec)
    /\ n' = [n EXCEPT ![p] = @ + 1]
    /\ UNCHANGED <<log, now, db, pc, from, pos, ev, okw, failed, crashes, stateVars,
                   status_url, resp, entry, attempts, stmt, wres, callVars, ret>>

\* lines 652-653: safe_commit and the return of the count
LedgerCommit(p) ==
    /\ pc[p] = "ledger"
    /\ db' = CommitStore(db, View(p))
    /\ conn' = [conn EXCEPT ![p] = Closed]
    /\ pc' = [pc EXCEPT ![p] = "idle"]
    /\ UNCHANGED <<log, now, from, pos, n, ev, okw, failed, crashes, stateVars, auxVars>>

NextLedger ==
    \/ LedgerBegin(1)
    \/ LedgerUpsert(1)
    \/ LedgerCommit(1)

SpecLedger == Init /\ [][NextLedger]_vars

\* ------------------------------------------------------------ CKPoolState
\* the log lines of the CKPoolState runs
LinesState(clock) ==
    { AuthLine(clock, "w1", "a"), ShareLine(clock, "w1", "a", "accepted"),
      DropLine(clock, "w1", "a"), AuthLine(NoTs, "w1", "b") }

\* no other connection holds the write lock (a writer waits for it, within
\* the busy timeout)
LockFree(p) == \A q \in Procs \ {p} : ~conn[q].open

\* line 729: refresh() reads the clock
RefreshEnter(p) ==
    /\ pc[p] = "idle"
    /\ tnow' = [tnow EXCEPT ![p] = now]
    /\ entry' = [entry EXCEPT ![p] = snapshot]
    /\ pc' = [pc EXCEPT ![p] = "check"]
    /\ UNCHANGED <<log, now, db, conn, from, pos, n, ev, okw, failed, crashes,
                   last_refresh_ts, snapshot, bnow, res, builds,
                   status_url, resp, upserted, attempts, stmt, wres, callVars, ret>>

\* lines 730-731: the throttle test
RefreshCheck(p) ==
    /\ pc[p] = "check"
    /\ pc' = [pc EXCEPT ![p] = IF tnow[p] = last_refresh_ts THEN "idle" ELSE "set"]
    /\ UNCHANGED <<log, now, db, conn, from, pos, n, ev, okw, failed, crashes, stateVars, auxVars>>

\* lines 16-19: the requests library could be imported
Requests == TRUE

UseHttpNever(url, lib) == FALSE

\* line 734: the remote fetch is taken when a status URL is set and the
\* requests library is there
UseHttp(url, lib) == url /\ lib

\* lines 732-737: the rebuild is decided, the timestamp stored and the source
\* of the snapshot chosen
RefreshSet(p) ==
    /\ pc[p] = "set"
    /\ last_refresh_ts' = tnow[p]
    /\ builds' = [builds EXCEPT ![tnow[p]] = @ + 1]
    /\ pc' = [pc EXCEPT ![p] = IF UseHttp(status_url, Requests) THEN "fetch" ELSE "build"]
    /\ UNCHANGED <<log, now, db, conn, from, pos, n, ev, okw, failed, crashes,
                   snapshot, tnow, bnow, res, auxVars>>

\* lines 791-806: a fresh connection, init_db, the ingest_log call (no
\* statement failing, run to its end once it holds the write lock), then the
\* pool row, the runtime and the clock
BuildIngest(p) ==
    /\ pc[p] = "build"
    /\ LockFree(p)
    /\ from' = [from EXCEPT ![p] = GetStart(db, 0)]
    /\ pos' = [pos EXCEPT ![p] = IF GetStart(db, 0) > Len(log)
                                 THEN GetStart(db, 0) ELSE Len(log)]
    /\ db' = CommitStore(db, SetMeta(IngestAll(db, log, GetStart(db, 0), now),
                                     Tell(pos'[p], Len(log))))
    /\ bnow' = [bnow EXCEPT ![p] = now]
    /\ pc' = [pc EXCEPT ![p] = "sweep"]
    /\ UNCHANGED <<log, now, conn, n, ev, okw, failed, crashes,
                   last_refresh_ts, snapshot, tnow, res, builds, auxVars>>

\* lines 808-812: the expiry sweep, an UPDATE in the connection's transaction
BuildSweep(p) ==
    /\ pc[p] = "sweep"
    /\ LockFree(p)
    /\ conn' = [conn EXCEPT ![p] =
                   [open |-> TRUE,
                    v |-> [View(p) EXCEPT !.workers =
                              ExpireStaleWorkers(@, bnow[p], WORKER_TIMEOUT)]]]
    /\ pc' = [pc EXCEPT ![p] = "query"]
    /\ UNCHANGED <<log, now, db, from, pos, n, ev, okw, failed, crashes, stateVars, auxVars>>

\* lines 814-954: the queries and the aggregation on the connection, which the
\* finally block closes without a commit
BuildQuery(p) ==
    /\ pc[p] = "query"
    /\ res' = [res EXCEPT ![p] = BuildSnapshot(View(p), bnow[p])]
    /\ conn' = [conn EXCEPT ![p] = Closed]
    /\ pc' = [pc EXCEPT ![p] = "assign"]
    /\ UNCHANGED <<log, now, db, from, pos, n, ev, okw, failed, crashes,
                   last_refresh_ts, snapshot, tnow, bnow, builds, auxVars>>

\* line 740: self._snapshot = self._build_from_log(), and refresh() returns
RefreshAssign(p) ==
    /\ pc[p] = "assign"
    /\ snapshot' = res[p]
    /\ res' = [res EXCEPT ![p] = EmptySnapshot]
    /\ tnow' = [tnow EXCEPT ![p] = 0]
    /\ bnow' = [bnow EXCEPT ![p] = 0]
    /\ from' = [from EXCEPT ![p] = 0]
    /\ pos' = [pos EXCEPT ![p] = 0]
    /\ pc' = [pc EXCEPT ![p] = "idle"]
    /\ UNCHANGED <<log, now, db, conn, n, ev, okw, failed, crashes,
                   last_refresh_ts, builds, auxVars>>

\* ---------------------------------------------------- remote-status mode
\* What the status endpoint answers.  neterr: requests.get raises; non2xx:
\* raise_for_status raises; badjson: the body is no JSON; notdict: the body is
\* JSON but no object; badusers: "users" holds entries that are no objects;
\* ok: an object with "pool" and "users"; wrapped: the same under "status".
\* A users entry carries "wallet" ("" when absent) and "user" as the pair of
\* the text before and after its first dot.
HttpBody(kind, pool, users) == [kind |-> kind, pool |-> pool, users |-> users]

Responses ==
    { HttpBody(k, NoPool, << >>) :
        k \in {"neterr", "non2xx", "badjson", "notdict", "badusers"} }
    \cup { HttpBody(k, [key |-> Null, users |-> 1, workers |-> 2],
                     <<[wallet |-> "", user |-> <<"w1", "a">>]>>) :
              k \in {"ok", "wrapped"} }
    \cup { HttpBody("ok", NoPool, <<[wallet |-> "w2", user |-> <<"w1", "a">>]>>) }

FailKinds == {"neterr", "non2xx", "badjson", "notdict", "badusers"}

\* lines 766-774: wallet, address and worker of a users entry
NormalizeUser(u) ==
    LET wallet == IF u.wallet # "" THEN u.wallet ELSE u.user[1]
    IN [wallet |-> wallet, address |-> wallet, user |-> u.user,
        worker |-> IF u.user[1] = wallet /\ u.user[2] # "" THEN u.user[2] ELSE ""]

FetchStatusHttpRaw(r) ==
    [pool |-> [key |-> Null, users |-> 0, workers |-> 0],
     users |-> [k \in 1..Len(r.users) |-> NormalizeUser(r.users[k])],
     totals |-> EmptySnapshot.totals]

\* _fetch_status_http: every exception, and a body that is no object, give
\* the empty snapshot (the model does not tell an empty totals object from a
\* missing one)
FetchStatusHttp(r) ==
    IF r.kind \in {"neterr", "non2xx", "badjson", "badusers"} THEN EmptySnapshot
    ELSE IF r.kind = "notdict" THEN EmptySnapshot
    ELSE [pool |-> r.pool,
          users |-> [k \in 1..Len(r.users) |-> NormalizeUser(r.users[k])],
          totals |-> EmptySnapshot.totals]

\* line 736: the fetch, in place of the build
HttpFetch(p) ==
    /\ pc[p] = "fetch"
    /\ \E r \in Responses :
         /\ resp' = [resp EXCEPT ![p] = r.kind]
         /\ res' = [res EXCEPT ![p] = FetchStatusHttp(r)]
    /\ pc' = [pc EXCEPT ![p] = "assign"]
    /\ UNCHANGED <<log, now, db, conn, from, pos, n, ev, okw, failed, crashes,
                   last_refresh_ts, snapshot, tnow, bnow, builds,
                   status_url, entry, upserted, attempts, stmt, wres, callVars, ret>>

\* _build_from_log raises: the store cannot be opened (line 791), or a
\* statement after the ingest fails (lines 804-890); the finally block closes
\* the connection and the exception reaches refresh()
BuildFail(p) ==
    /\ pc[p] \in {"build", "sweep", "query"}
    /\ conn' = [conn EXCEPT ![p] = Closed]
    /\ pc' = [pc EXCEPT ![p] = "except"]
    /\ UNCHANGED <<log, now, db, from, pos, n, ev, okw, failed, crashes, stateVars,
                   auxVars>>

OnErrorEmpty(prev) == EmptySnapshot

\* lines 741-743: the handler of refresh() returns and assigns nothing
OnError(prev) == prev

RefreshExcept(p) ==
    /\ pc[p] = "except"
    /\ snapshot' = OnError(snapshot)
    /\ pc' = [pc EXCEPT ![p] = "ret"]
    /\ UNCHANGED <<log, now, db, conn, from, pos, n, ev, okw, failed, crashes,
                   last_refresh_ts, tnow, bnow, res, builds, auxVars>>

\* refresh() has returned to its caller after the handler
RefreshReturn(p) ==
    /\ pc[p] = "ret"
    /\ res' = [res EXCEPT ![p] = EmptySnapshot]
    /\ tnow' = [tnow EXCEPT ![p] = 0]
    /\ bnow' = [bnow EXCEPT ![p] = 0]
    /\ from' = [from EXCEPT ![p] = 0]
    /\ pos' = [pos EXCEPT ![p] = 0]
    /\ pc' = [pc EXCEPT ![p] = "idle"]
    /\ UNCHANGED <<log, now, db, conn, n, ev, okw, failed, crashes,
                   last_refresh_ts, snapshot, builds, auxVars>>

\* one caller of refresh() on a CKPoolState in log mode
NextBuild ==
    \/ AppendLine(LinesState(now), MaxLines)
    \/ Tick(MaxTime)
    \/ RefreshEnter(1)
    \/ RefreshCheck(1)
    \/ RefreshSet(1)
    \/ BuildIngest(1)
    \/ BuildSweep(1)
    \/ BuildQuery(1)
    \/ RefreshAssign(1)

SpecBuild == Init /\ [][NextBuild]_vars

\* the same caller, with builds that fail
NextBuildFail ==
    \/ AppendLine(LinesState(now), MaxFailLines)
    \/ Tick(MaxTime)
    \/ RefreshEnter(1)
    \/ RefreshCheck(1)
    \/ RefreshSet(1)
    \/ BuildIngest(1)
    \/ BuildSweep(1)
    \/ BuildQuery(1)
    \/ RefreshAssign(1)
    \/ BuildFail(1)
    \/ RefreshExcept(1)
    \/ RefreshReturn(1)

SpecBuildFail == Init /\ [][NextBuildFail]_vars

\* the log lines of the aggregation runs: statistics of wallet w1 under its
\* bare address (no last share, no worker count) and under two wallet.worker
\* addresses, and workers of w1 and w2 signing in
LinesAgg(clock) ==
    { UserLineData(clock, "w1", "", 0, 1,
                   [h1 |-> Hash(500, "G"), lastshare |-> Null, best |-> Null, bestever |-> Null]),
      UserLineData(clock, "w1", "a", 2, 2,
                   [h1 |-> Hash(1, "T"), lastshare |-> 1, best |-> 3, bestever |-> 3]),
      UserLineData(clock, "w1", "b", 1, 3,
                   [h1 |-> Hash(2, "T"), lastshare |-> 2, best |-> 5, bestever |-> 5]),
      AuthLine(clock, "w1", "a"),
      AuthLine(clock, "w2", "a") }

NextAgg ==
    \/ AppendLine(LinesAgg(now), MaxLines)
    \/ Tick(MaxTime)
    \/ RefreshEnter(1)
    \/ RefreshCheck(1)
    \/ RefreshSet(1)
    \/ BuildIngest(1)
    \/ BuildSweep(1)
    \/ BuildQuery(1)
    \/ RefreshAssign(1)

SpecAgg == Init /\ [][NextAgg]_vars

\* a CKPoolState with or without a status URL
InitEitherMode ==
    /\ InitBase
    /\ status_url \in BOOLEAN
    /\ attempts = [i \in 1..MaxAnswers |-> "ok"]
    /\ stmt = "commit"

\* one caller of refresh() on it
NextRemote ==
    \/ AppendLine(LinesState(now), MaxFailLines)
    \/ Tick(MaxTime)
    \/ RefreshEnter(1)
    \/ RefreshCheck(1)
    \/ RefreshSet(1)
    \/ HttpFetch(1)
    \/ BuildIngest(1)
    \/ BuildSweep(1)
    \/ BuildQuery(1)
    \/ RefreshAssign(1)

SpecRemote == InitEitherMode /\ [][NextRemote]_vars

\* the threads of one CKPoolState calling refresh()
NextThreads ==
    \/ AppendLine(LinesState(now), MaxThreadLines)
    \/ Tick(MaxThreadTime)
    \/ \E p \in Procs :
         \/ RefreshEnter(p)
         \/ RefreshCheck(p)
         \/ RefreshSet(p)
         \/ BuildIngest(p)
         \/ BuildSweep(p)
         \/ BuildQuery(p)
         \/ RefreshAssign(p)

SpecThreads == Init /\ [][NextThreads]_vars

\* sequential calls of the ingest command, no statement failing
NextIngest ==
    \/ AppendLine(LinesIngest(now), MaxLines)
    \/ Tick(MaxIngestTime)
    \/ IngestBegin(1)
    \/ IngestLine(1, {AllOk})
    \/ IngestCommit(1)
    \/ IngestSetMeta(1, FALSE)
    \/ IngestReturn(1)

SpecIngest == Init /\ [][NextIngest]_vars

\* the log lines of the row-upsert runs: pool status spread over lines that
\* carry different fields, and user status with all fields, with only a
\* bestever, and of a sub-account
LinesRows(clock) ==
    { PoolLine(clock, 1, Null), PoolLine(clock, Null, 2), PoolLine(clock, 2, 1),
      UserLineData(clock, "w1", NoWorker, 1, 5,
                   [h1 |-> Hash(1, "T"), lastshare |-> 1, best |-> 3, bestever |-> 5]),
      UserLineData(clock, "w1", NoWorker, Null, Null,
                   [h1 |-> NoHash, lastshare |-> Null, best |-> Null, bestever |-> 4]),
      UserLineData(clock, "w1", "a", 2, 2,
                   [h1 |-> Hash(2, "T"), lastshare |-> Null, best |-> 2, bestever |-> Null]) }

NextRows ==
    \/ AppendLine(LinesRows(now), MaxLines)
    \/ Tick(MaxIngestTime)
    \/ IngestBegin(1)
    \/ IngestLine(1, {AllOk})
    \/ IngestCommit(1)
    \/ IngestSetMeta(1, FALSE)
    \/ IngestReturn(1)

SpecRows == Init /\ [][NextRows]_vars

\* the log lines of the payload runs: pool and user status with a payload
\* that parses and with one that does not
LinesJson(clock) ==
    { PoolLine(clock, 1, Null), PoolLine(clock, Null, 2),
      BadJson(PoolLine(clock, 2, 1)),
      UserLine(clock, "w1", NoWorker, 1, 5),
      BadJson(UserLine(clock, "w1", NoWorker, 2, 7)),
      AuthLine(clock, "w1", "a") }

NextJson ==
    \/ AppendLine(LinesJson(now), MaxLines)
    \/ Tick(MaxIngestTime)
    \/ IngestBegin(1)
    \/ IngestLine(1, {AllOk})
    \/ IngestCommit(1)
    \/ IngestSetMeta(1, FALSE)
    \/ IngestReturn(1)

SpecJson == Init /\ [][NextJson]_vars

\* the share lines in their phrasings: the status word plain or in another
\* letter case, a worker called "accepted", and a trailing text
LinesShares(clock) ==
    { ShareText(clock, "w1", "a", st, lt, tl) :
        st \in {"accepted", "rejected"}, lt \in {"plain", "other"}, tl \in {"", "accepted"} }
    \cup { ShareText(clock, "w1", "accepted", "rejected", "plain", ""),
           ShareText(clock, "w1", NoWorker, "rejected", "plain", "") }

NextShares ==
    \/ AppendLine(LinesShares(now), MaxFailLines)
    \/ Tick(MaxIngestTime)
    \/ IngestBegin(1)
    \/ IngestLine(1, {AllOk})
    \/ IngestCommit(1)
    \/ IngestSetMeta(1, FALSE)
    \/ IngestReturn(1)

SpecShares == Init /\ [][NextShares]_vars

\* ------------------------------------------------------------ classifier
\* the chain of parsers of the read loop (lines 487-552): the event of the
\* first dialect that matches, read at the given clock
Classify(line, clock) ==
    LET pj == ParsePoolJsonLine(line, clock)
        usr == ParseUserLine(line, clock)
        auth == ParseAuthorisedLine(line, clock)
        drop == ParseDroppedLine(line, clock)
        share == ParseShareLine(line, clock)
    IN IF pj.kind # "none" THEN pj
       ELSE IF usr.kind # "none" THEN usr
       ELSE IF auth.kind # "none" THEN auth
       ELSE IF drop.kind # "none" THEN drop
       ELSE share

\* the lines to classify: with a timestamp, without one, and with one that
\* does not parse
LinesClassify(clock) ==
    { AuthLine(clock, "w1", "a"), AuthLine(NoTs, "w1", "a"), AuthLine(BadTs, "w1", NoWorker),
      DropLine(clock, "w1", "a"), DropLine(NoTs, "w1", "a"),
      ShareLine(clock, "w1", "a", "accepted"), ShareLine(BadTs, "w1", "a", "rejected"),
      UserLine(clock, "w1", NoWorker, 1, 5), UserLine(NoTs, "w1", NoWorker, 1, 5),
      PoolLine(clock, 1, Null), PoolLine(BadTs, 1, 2),
      JunkLine }

\* the line is classified, as classification number p
ClassifyLine(p) ==
    /\ Len(log) >= 1
    /\ ev' = [ev EXCEPT ![p] = Classify(log[1], now)]
    /\ UNCHANGED <<log, now, db, conn, pc, from, pos, n, okw, failed, crashes,
                   stateVars, auxVars>>

NextClassify ==
    \/ AppendLine(LinesClassify(now), 1)
    \/ Tick(MaxTime)
    \/ \E p \in Procs : ClassifyLine(p)

SpecClassify == Init /\ [][NextClassify]_vars

\* the same with failing statements, a raising set_meta and crashes
NextFaults ==
    \/ AppendLine(LinesFaults(now), MaxLines)
    \/ Tick(MaxIngestTime)
    \/ IngestBegin(1)
    \/ IngestLine(1, Outcomes)
    \/ IngestCommit(1)
    \/ IngestSetMeta(1, TRUE)
    \/ IngestReturn(1)
    \/ Crash(1)

SpecFaults == Init /\ [][NextFaults]_vars

\* --------------------------------------------------- active_workers window
\* the log of these runs holds up to MaxTtlLines lines
MaxTtlLines == 2

\* the log lines of the runs that follow one worker through its TTL window
LinesTtl(clock) ==
    { AuthLine(clock, "w1", "a"), ShareLine(clock, "w1", "a", "accepted"),
      DropLine(clock, "w1", "a"), UserLine(clock, "w1", NoWorker, 1, 5) }

NextTtl ==
    \/ AppendLine(LinesTtl(now), MaxTtlLines)
    \/ Tick(MaxTime)
    \/ RefreshEnter(1)
    \/ RefreshCheck(1)
    \/ RefreshSet(1)
    \/ BuildIngest(1)
    \/ BuildSweep(1)
    \/ BuildQuery(1)
    \/ RefreshAssign(1)

\* a step of refresh() (lines 727-743) other than the queries of the build
RefreshStep ==
    \/ RefreshEnter(1)
    \/ RefreshCheck(1)
    \/ RefreshSet(1)
    \/ BuildIngest(1)
    \/ BuildSweep(1)
    \/ RefreshAssign(1)

\* the queries of the build end: the step of BuildQuery(1), told by the
\* caller's position alone
QueryEnds == pc[1] = "query" /\ pc' = [pc EXCEPT ![1] = "assign"]

\* the wall clock advances, the caller keeps calling refresh() and a call that
\* has begun runs to its end
FairTtl == WF_vars(Tick(MaxTime)) /\ WF_vars(RefreshStep) /\ WF_pc(QueryEnds)

SpecTtl == Init /\ [][NextTtl]_vars /\ FairTtl

\* ------------------------------------------------------ file order
\* the log lines of the runs that watch the order of the mutations: lines
\* that name one pair with either flag, a second pair, a line the read stamps,
\* and user-status lines of one address with different values
LinesOrder(clock) ==
    { AuthLine(clock, "w1", "a"), DropLine(clock, "w1", "a"),
      AuthLine(NoTs, "w1", "a"),
      ShareLine(clock, "w1", "b", "accepted"),
      UserLine(clock, "w1", NoWorker, 1, 5),
      UserLine(clock, "w1", NoWorker, 2, 7) }

NextOrder ==
    \/ AppendLine(LinesOrder(now), MaxLines)
    \/ Tick(MaxIngestTime)
    \/ IngestBegin(1)
    \/ IngestLine(1, {AllOk})
    \/ IngestCommit(1)
    \/ IngestSetMeta(1, FALSE)
    \/ IngestReturn(1)

SpecOrder == Init /\ [][NextOrder]_vars

\* ------------------------------------------------- unrecognized lines
\* the log lines of the runs with lines that match no dialect: a line of
\* another program, pool and user lines whose payload is no JSON, and two
\* recognized lines that fill the store
LinesSkip(clock) ==
    { JunkLine,
      BadJson(PoolLine(clock, 2, 1)),
      BadJson(UserLine(clock, "w1", NoWorker, 2, 7)),
      AuthLine(clock, "w1", "a"),
      PoolLine(clock, 1, Null) }

NextSkip ==
    \/ AppendLine(LinesSkip(now), MaxLines)
    \/ Tick(MaxIngestTime)
    \/ IngestBegin(1)
    \/ IngestLine(1, {AllOk})
    \/ IngestCommit(1)
    \/ IngestSetMeta(1, FALSE)
    \/ IngestReturn(1)

SpecSkip == Init /\ [][NextSkip]_vars

\* ------------------------------------------- builds whose ingest fails
\* lines 569-578 and 797-802: the statements of the ingest_log call succeed in
\* the connection's transaction, its commit stays locked (swallowed, lines
\* 570-574), set_meta executes its INSERT and raises on its own commit, and
\* _build_from_log swallows the exception and goes on with the connection
BuildIngestFail(p) ==
    /\ pc[p] = "build"
    /\ LockFree(p)
    /\ crashes < MaxCrashes
    /\ crashes' = crashes + 1
    /\ from' = [from EXCEPT ![p] = GetStart(db, 0)]
    /\ pos' = [pos EXCEPT ![p] = IF GetStart(db, 0) > Len(log)
                                 THEN GetStart(db, 0) ELSE Len(log)]
    /\ conn' = [conn EXCEPT ![p] =
                   [open |-> TRUE,
                    v |-> SetMeta(IngestAll(db, log, GetStart(db, 0), now),
                                  Tell(pos'[p], Len(log)))]]
    /\ bnow' = [bnow EXCEPT ![p] = now]
    /\ pc' = [pc EXCEPT ![p] = "sweep"]
    /\ UNCHANGED <<log, now, db, n, ev, okw, failed,
                   last_refresh_ts, snapshot, tnow, res, builds, auxVars>>

NextLocked ==
    \/ AppendLine(LinesState(now), MaxFailLines)
    \/ Tick(MaxTime)
    \/ RefreshEnter(1)
    \/ RefreshCheck(1)
    \/ RefreshSet(1)
    \/ BuildIngest(1)
    \/ BuildIngestFail(1)
    \/ BuildSweep(1)
    \/ BuildQuery(1)
    \/ RefreshAssign(1)

SpecLocked == Init /\ [][NextLocked]_vars

\* ------------------------------------- two calls on separate connections
\* the log lines of the runs with two concurrent ingest_log calls
LinesShared(clock) ==
    { ShareLine(clock, "w1", "a", "accepted"), AuthLine(clock, "w1", "b"), JunkLine }

\* the connection of process p can write: it holds the write lock already, or
\* no other connection holds it.  A statement that finds the lock held waits
\* for it (busy_timeout, line 135).
CanWrite(p) == conn[p].open \/ LockFree(p)

\* one round of the read loop; a line that issues statements waits for the lock
IngestLineShared(p) ==
    /\ pc[p] = "read"
    /\ pos[p] < Len(log)
    /\ CanWrite(p) \/ Classify(log[pos[p] + 1], now).kind = "none"
    /\ IngestLine(p, {AllOk})

\* set_meta (lines 234-236) waits for the lock, writes the cursor and commits
IngestSetMetaShared(p) ==
    /\ CanWrite(p)
    /\ IngestSetMeta(p, FALSE)

NextShared ==
    \/ AppendLine(LinesShared(now), MaxLines)
    \/ \E p \in Procs :
         \/ IngestBegin(p)
         \/ IngestLineShared(p)
         \/ IngestCommit(p)
         \/ IngestSetMetaShared(p)
         \/ IngestReturn(p)

SpecShared == Init /\ [][NextShared]_vars

\* ------------------------------------------------ the from_bytes argument
\* the largest offset passed as from_bytes (one past the longest log)
MaxFromBytes == 4

\* how often the runs read one line again
MaxReplays == 2

\* the log lines of the runs of the CLI with --from-bytes
LinesFrom(clock) ==
    { AuthLine(clock, "w1", "a"), ShareLine(clock, "w1", "a", "accepted"), JunkLine }

\* lines 462-475 with the argument of _cmd_ingest (line 968): the cursor lookup
\* when from_bytes is 0, and the seek, which succeeds past the end of the file
IngestBeginFrom(p, from_bytes) ==
    /\ pc[p] = "idle"
    /\ \A i \in 1..MaxLines : db.applied[i] < MaxReplays
    /\ pc' = [pc EXCEPT ![p] = "read"]
    /\ from' = [from EXCEPT ![p] = GetStart(View(p), from_bytes)]
    /\ pos' = [pos EXCEPT ![p] = GetStart(View(p), from_bytes)]
    /\ n' = [n EXCEPT ![p] = 0]
    /\ UNCHANGED <<log, now, db, conn, ev, okw, failed, crashes, stateVars, auxVars>>

NextFrom ==
    \/ AppendLine(LinesFrom(now), MaxLines)
    \/ Tick(MaxIngestTime)
    \/ \E from_bytes \in 0..MaxFromBytes : IngestBeginFrom(1, from_bytes)
    \/ IngestLine(1, {AllOk})
    \/ IngestCommit(1)
    \/ IngestSetMeta(1, FALSE)
    \/ IngestReturn(1)

SpecFrom == Init /\ [][NextFrom]_vars

\* ------------------------------------------------------------ snapshot()
\* the log lines of the runs with snapshot() calls: a line that gives the
\* snapshot a user row and one that gives it a pool object
LinesSnap(clock) ==
    { AuthLine(clock, "w1", "a"), PoolLine(clock, 1, Null) }

CacheEmptyUsers(snap) == snap.users = << >>

\* line 746: not self._snapshot.get("pool") and not self._snapshot.get("users")
CacheEmpty(snap) == snap.pool = NoPool /\ snap.users = << >>

\* lines 745-748 with a cache that is not empty: the cache is returned
SnapshotCached(p) ==
    /\ pc[p] = "idle"
    /\ ~ret[p].inside
    /\ ~CacheEmpty(snapshot)
    /\ ret' = [ret EXCEPT ![p] = [inside |-> FALSE, val |-> snapshot]]
    /\ UNCHANGED <<log, now, db, conn, pc, from, pos, n, ev, okw, failed, crashes,
                   stateVars, status_url, resp, entry, upserted, attempts, stmt, wres,
                   callVars>>

\* lines 746-747 with an empty cache: snapshot() calls refresh(), which reads
\* the clock (line 729)
SnapshotEmpty(p) ==
    /\ pc[p] = "idle"
    /\ ~ret[p].inside
    /\ CacheEmpty(snapshot)
    /\ ret' = [ret EXCEPT ![p] = [inside |-> TRUE, val |-> EmptySnapshot]]
    /\ tnow' = [tnow EXCEPT ![p] = now]
    /\ entry' = [entry EXCEPT ![p] = snapshot]
    /\ pc' = [pc EXCEPT ![p] = "check"]
    /\ UNCHANGED <<log, now, db, conn, from, pos, n, ev, okw, failed, crashes,
                   last_refresh_ts, snapshot, bnow, res, builds,
                   status_url, resp, upserted, attempts, stmt, wres, callVars>>

\* line 748 after the refresh() of line 747 has returned
SnapshotReturn(p) ==
    /\ pc[p] = "idle"
    /\ ret[p].inside
    /\ ret' = [ret EXCEPT ![p] = [inside |-> FALSE, val |-> snapshot]]
    /\ UNCHANGED <<log, now, db, conn, pc, from, pos, n, ev, okw, failed, crashes,
                   stateVars, status_url, resp, entry, upserted, attempts, stmt, wres,
                   callVars>>

\* a caller calls refresh() itself
RefreshCall(p) == ~ret[p].inside /\ RefreshEnter(p)

NextSnap ==
    \/ AppendLine(LinesSnap(now), MaxFailLines)
    \/ Tick(MaxTime)
    \/ SnapshotCached(1)
    \/ SnapshotEmpty(1)
    \/ SnapshotReturn(1)
    \/ RefreshCall(1)
    \/ RefreshCheck(1)
    \/ RefreshSet(1)
    \/ BuildIngest(1)
    \/ BuildSweep(1)
    \/ BuildQuery(1)
    \/ RefreshAssign(1)

SpecSnap == Init /\ [][NextSnap]_vars

\* ------------------------------------------------------------- properties
\* the persisted cursor as an offset (0 when the meta row is missing)
Cursor(s) == IF s.cursor = Null THEN 0 ELSE s.cursor

\* the classifier recognizes the line
Recognized(line) == ApplyLine(EmptyStore, 1, line, 1, AllOk).ev.kind # "none"

\* every recognized line carries a bracketed timestamp that parses
Stamped(lines) ==
    \A i \in 1..Len(lines) : Recognized(lines[i]) => lines[i].ts \notin {NoTs, BadTs}

\* the share lines among the first k lines of the log
ShareLinesBefore(k) ==
    Cardinality({i \in 1..k : ParseShareLine(log[i], 1).kind = "share"})

\* the log is an Authorised, a Share accepted and a Dropped line of w1.a, and
\* the build of process p read it whole
C1_Scenario(p) ==
    /\ pc[p] = "assign"
    /\ Len(log) = 3
    /\ log[1].kind = "auth" /\ log[1].wallet = "w1" /\ log[1].worker = "a"
    /\ log[2].kind = "share" /\ log[2].wallet = "w1" /\ log[2].worker = "a"
    /\ log[3].kind = "drop" /\ log[3].wallet = "w1" /\ log[3].worker = "a"
    /\ pos[p] = 3

\* C1: after ingesting Authorised, Share accepted, Dropped for one worker of a
\* wallet, the snapshot built has a row for the wallet whose active_workers
\* list is empty, and the share log has exactly one row.
C1_DropEmptiesActiveWorkers ==
    \A p \in Procs :
        C1_Scenario(p) =>
            /\ \E k \in 1..Len(res[p].users) :
                  /\ res[p].users[k].wallet = "w1"
                  /\ res[p].users[k].active_workers = << >>
            /\ Len(db.shares) = 1

\* the store tables after one ingest_log call, made within clock second t, on
\* the first k lines of the log and an empty store
OneShot(k, t) == Tables(IngestAll(EmptyStore, SubSeq(log, 1, k), 0, t))

C3_ReplayKeepsUsersAndWorkers ==
    \A p \in Procs :
        ( /\ pc[p] = "done"
          /\ from[p] = 0
          /\ pos[p] = Len(log)
          /\ failed = {}
          /\ Stamped(log)
          /\ \A i \in 1..Len(log) : Recognized(log[i]) => db.applied[i] = 2 )
        => LET first == IngestAll(EmptyStore, log, 0, 1) IN
           /\ db.users = first.users
           /\ db.workers = first.workers

C5_CursorNotAheadOfData ==
    failed = {} =>
        \A i \in 1..Cursor(db) : Recognized(log[i]) => db.applied[i] >= 1

\* a crash left committed data that the cursor does not cover yet
C5_Witness ==
    /\ crashes = 1
    /\ failed = {}
    /\ pc[1] = "idle"
    /\ \E i \in 1..Len(log) : db.applied[i] >= 1 /\ i > Cursor(db)

\* C6: no recognized line before the persisted cursor lacks its committed
\* mutation, whether its write failed or was never committed.
C6_NoLossBeforeCursor ==
    \A i \in 1..Cursor(db) : Recognized(log[i]) => db.applied[i] >= 1

\* the workers_seen row of the pair in the view of process p (a row that
\* matches no pair when there is none)
RowOf(p, wallet, worker) ==
    LET ws == View(p).workers
        i == SeqIndex(ws, <<wallet, worker>>, 1)
    IN IF i = 0 THEN [key |-> << >>, last_seen |-> Null, active |-> FALSE]
       ELSE ws[i]

\* C7: right after ingest_log applies an authorised event the pair's row is
\* active with last_seen at the event's timestamp, after a dropped event it is
\* inactive with that last_seen, after a share event with a worker fragment it
\* is active with that last_seen; a wallet-only authorised or dropped line
\* acts on the pair (wallet, "X").
C7_LivenessAfterEvent ==
    \A p \in Procs :
        (pc[p] = "read" /\ pos[p] > from[p] /\ okw[p]) =>
            LET e == ev[p]
                line == log[pos[p]]
                row == RowOf(p, e.wallet, e.worker)
            IN /\ line.ts # NoTs => e.ts = line.ts
               /\ e.kind = "auth" =>
                      row.key = <<line.wallet, e.worker>> /\ row.active
                      /\ row.last_seen = e.ts
               /\ e.kind = "drop" =>
                      row.key = <<line.wallet, e.worker>> /\ ~row.active
                      /\ row.last_seen = e.ts
               /\ (e.kind = "share" /\ line.worker # NoWorker) =>
                      row.key = <<line.wallet, line.worker>> /\ row.active
                      /\ row.last_seen = e.ts
               /\ (e.kind \in {"auth", "drop"} /\ line.worker = NoWorker) =>
                      e.worker = X
               /\ (e.kind \in {"auth", "drop"} /\ line.worker \in WorkerNames) =>
                      e.worker = line.worker

\* a wallet-only Dropped line was just applied to a pair that was active
C7_Witness ==
    /\ pc[1] = "read"
    /\ pos[1] > from[1]
    /\ okw[1]
    /\ ev[1].kind = "drop"
    /\ log[pos[1]].worker = NoWorker
    /\ RowOf(1, "w1", X).key = <<"w1", X>>
    /\ ~RowOf(1, "w1", X).active
    /\ \E i \in 1..(pos[1] - 1) : log[i].kind = "auth" /\ log[i].worker = NoWorker

\* C8: the expiry sweep run at time now turns an active row with last_seen T
\* inactive exactly when now - T > WORKER_TIMEOUT (at T + W + 1 it does, at
\* T + W and T + W - 1 it does not), and changes nothing else.
C8_SweepExpiresPastTimeout ==
    \A p \in Procs :
        pc[p] = "query" =>
            /\ Len(View(p).workers) = Len(db.workers)
            /\ \A i \in 1..Len(db.workers) :
                  LET T == db.workers[i].last_seen
                      row == View(p).workers[i]
                  IN /\ row.key = db.workers[i].key
                     /\ row.last_seen = T
                     /\ ~db.workers[i].active => ~row.active
                     /\ db.workers[i].active =>
                          /\ row.active <=> ~(bnow[p] - T > WORKER_TIMEOUT)
                          /\ bnow[p] = T + WORKER_TIMEOUT + 1 => ~row.active
                          /\ bnow[p] = T + WORKER_TIMEOUT => row.active
                          /\ bnow[p] = T + WORKER_TIMEOUT - 1 => row.active

\* a sweep at T + W + 1 has just turned an active row inactive
C8_Witness ==
    /\ pc[1] = "query"
    /\ \E i \in 1..Len(db.workers) :
          /\ db.workers[i].active
          /\ bnow[1] = db.workers[i].last_seen + WORKER_TIMEOUT + 1
          /\ ~View(1).workers[i].active

\* C9: once a snapshot build made at time now has completed, every worker row
\* with now - last_seen > WORKER_TIMEOUT is inactive in the persisted store.
C9_SweepIsPersisted ==
    \A p \in Procs :
        pc[p] = "assign" =>
            \A i \in 1..Len(db.workers) :
                bnow[p] - db.workers[i].last_seen > WORKER_TIMEOUT =>
                    ~db.workers[i].active

\* C10: in any interleaving of refresh() calls on one CKPoolState at most one
\* rebuild is started per wall-clock second.
C10_OneRebuildPerSecond ==
    \A t \in Time : builds[t] <= 1


WalletsOfStore(s, now_ts) ==
    { w \in Wallets :
        \/ \E i \in 1..Len(s.users) : s.users[i].key[1] = w
        \/ \E i \in 1..Len(s.workers) :
              /\ s.workers[i].key[1] = w
              /\ now_ts - s.workers[i].last_seen <= WORKER_TIMEOUT }

LatestShare(rows) == MaxSeq([k \in 1..Len(rows) |-> IntOr0(rows[k].lastshare)])

Reverse(q) == [k \in 1..Len(q) |-> q[Len(q) + 1 - k]]

\* C14: the row of a wallet with several user-stats records carries the sum
\* of their 1-minute hashrates (rendered), the sum of their share counts, the
\* maximum of their reported worker counts and of their best shares, and the
\* latest of their last-share times, whatever the order the records are read
\* in.
C14_RowAggregatesRecords ==
    \A p \in Procs :
        pc[p] = "assign" =>
            \A k \in 1..Len(res[p].users) :
                LET row == res[p].users[k]
                    recs == RowsOfWallet(db.users, row.wallet)
                    hs == SumSeq([j \in 1..Len(recs) |-> ParseHashrateToHs(recs[j].h1)])
                IN recs # << >> =>
                     /\ row.hashrate1m = IF hs > 0 THEN HumanHashrate(hs) ELSE Dash
                     /\ row.shares = SumSeq([j \in 1..Len(recs) |-> IntOr0(recs[j].shares)])
                     /\ row.bestshare = MaxSeq([j \in 1..Len(recs) |-> IntOr0(recs[j].bestshare)])
                     /\ AggRows(recs).workers_cnt =
                            MaxSeq([j \in 1..Len(recs) |-> IntOr0(recs[j].workers)])
                     /\ LatestShare(recs) # 0 => row.lastshare = LatestShare(recs)
                     /\ AggRows(Reverse(recs)) = AggRows(recs)

\* the same without the last-share time: sums and maxima, with the records
\* wallet.a and wallet.b of 1T and 2T rendered as 3.00T
C14_SumsAndMaxima ==
    \A p \in Procs :
        pc[p] = "assign" =>
            \A k \in 1..Len(res[p].users) :
                LET row == res[p].users[k]
                    recs == RowsOfWallet(db.users, row.wallet)
                    hs == SumSeq([j \in 1..Len(recs) |-> ParseHashrateToHs(recs[j].h1)])
                IN recs # << >> =>
                     /\ row.hashrate1m = IF hs > 0 THEN HumanHashrate(hs) ELSE Dash
                     /\ row.shares = SumSeq([j \in 1..Len(recs) |-> IntOr0(recs[j].shares)])
                     /\ row.bestshare = MaxSeq([j \in 1..Len(recs) |-> IntOr0(recs[j].bestshare)])
                     /\ hs = 3000 => row.hashrate1m = [whole |-> 3, frac |-> 0, unit |-> "T"]

C14_Witness ==
    /\ pc[1] = "assign"
    /\ Len(RowsOfWallet(db.users, "w1")) = 2
    /\ res[1].users[1].hashrate1m = [whole |-> 3, frac |-> 0, unit |-> "T"]
    /\ res[1].users[1].shares = 5

\* C15: the effective worker count of a row is the length of its active-worker
\* list when the list is non-empty, else the reported worker count of the
\* wallet's records when non-zero, else 1 with a record and 0 without.
C15_EffectiveWorkerCount ==
    \A p \in Procs :
        pc[p] = "assign" =>
            \A k \in 1..Len(res[p].users) :
                LET row == res[p].users[k]
                    recs == RowsOfWallet(db.users, row.wallet)
                    reported == MaxSeq([j \in 1..Len(recs) |-> IntOr0(recs[j].workers)])
                    active == SeenNames(db.workers, row.wallet, bnow[p])
                IN /\ row.active_workers = active
                   /\ row.workers = IF active # << >> THEN Len(active)
                                    ELSE IF reported # 0 THEN reported
                                    ELSE IF recs # << >> THEN 1 ELSE 0

\* a row whose active-worker list (one name) wins over the reported count (2)
C15_Witness ==
    /\ pc[1] = "assign"
    /\ res[1].users # << >>
    /\ res[1].users[1].active_workers = <<"a">>
    /\ \E i \in 1..Len(db.users) : db.users[i].key[1] = "w1" /\ db.users[i].workers = 2
    /\ res[1].users[1].workers = 1

\* a row without active workers and without a reported count counts 1
C15_WitnessFallback ==
    /\ pc[1] = "assign"
    /\ res[1].users # << >>
    /\ res[1].users[1].active_workers = << >>
    /\ Len(RowsOfWallet(db.users, "w1")) = 1
    /\ RowsOfWallet(db.users, "w1")[1].workers = 0
    /\ res[1].users[1].workers = 1

\* the value of a pool field after the pool lines 1..k of timestamp ts: the
\* last one carried (Null if none carried it)
RECURSIVE LastCarried(_, _, _)
LastCarried(k, ts, field) ==
    IF k = 0 THEN Null
    ELSE IF log[k].kind = "pool" /\ log[k].ts = ts /\ log[k][field] # Null
    THEN log[k][field]
    ELSE LastCarried(k - 1, ts, field)

PoolRowsOf(s, ts) == {i \in 1..Len(s.pool) : s.pool[i].key = ts}

\* C16: the pool_metrics row of a timestamp holds, per field, the value of the
\* last event of that timestamp that carried the field: an event overwrites
\* only the fields it carries, a value is never set back to null, and there is
\* one row per timestamp.
C16_PoolFieldsNeverNulled ==
    \A p \in Procs :
        pc[p] = "read" =>
            \A ts \in Time :
                LET had == \E k \in 1..pos[p] : log[k].kind = "pool" /\ log[k].ts = ts
                IN /\ Cardinality(PoolRowsOf(View(p), ts)) = IF had THEN 1 ELSE 0
                   /\ \A i \in PoolRowsOf(View(p), ts) :
                         /\ View(p).pool[i].users = LastCarried(pos[p], ts, "users")
                         /\ View(p).pool[i].workers = LastCarried(pos[p], ts, "workers")

\* an event that carries only the worker count has just been applied to a row
\* whose user count an earlier event of the same timestamp had set
C16_Witness ==
    /\ pc[1] = "read"
    /\ pos[1] >= 2
    /\ ev[1].kind = "pool"
    /\ ev[1].users = Null
    /\ ev[1].workers = 2
    /\ \E i \in PoolRowsOf(View(1), ev[1].ts) :
          View(1).pool[i].users = 1 /\ View(1).pool[i].workers = 2

UserRowsOf(s, key) == {i \in 1..Len(s.users) : s.users[i].key = key}

\* the user_stats row right after its event, all columns but bestshare
RowIsEvent(row, e) ==
    /\ row.ts = e.ts
    /\ row.workers = e.workers
    /\ row.shares = e.shares
    /\ row.h1 = e.data.h1
    /\ row.lastshare = e.data.lastshare
    /\ row.bestever = e.data.bestever

\* C17 as stated: after a user-status event the row of its address holds
\* exactly the event's fields, an absent field being null, and there is one row
\* per address.
C17_Original ==
    \A p \in Procs :
        (pc[p] = "read" /\ pos[p] > from[p] /\ ev[p].kind = "user") =>
            /\ Cardinality(UserRowsOf(View(p), <<ev[p].wallet, ev[p].worker>>)) = 1
            /\ \A i \in UserRowsOf(View(p), <<ev[p].wallet, ev[p].worker>>) :
                  /\ RowIsEvent(View(p).users[i], ev[p])
                  /\ View(p).users[i].bestshare = ev[p].data.best

\* C17, amended: after a user-status event the row of its address holds
\* exactly the event's fields, an absent field being null and no value of the
\* previous row surviving, except that the bestshare column holds the event's
\* bestshare or, when that is absent or zero, the event's bestever; there is
\* one row per address.
C17_RowReplacedWholesale ==
    \A p \in Procs :
        (pc[p] = "read" /\ pos[p] > from[p] /\ ev[p].kind = "user") =>
            /\ Cardinality(UserRowsOf(View(p), <<ev[p].wallet, ev[p].worker>>)) = 1
            /\ \A i \in UserRowsOf(View(p), <<ev[p].wallet, ev[p].worker>>) :
                  /\ RowIsEvent(View(p).users[i], ev[p])
                  /\ View(p).users[i].bestshare =
                        IF ev[p].data.best \notin {Null, 0} THEN ev[p].data.best
                        ELSE ev[p].data.bestever

\* an event with nothing but a bestever has replaced a row that had every field
C17_Witness ==
    /\ pc[1] = "read"
    /\ pos[1] >= 2
    /\ ev[1].kind = "user"
    /\ ev[1].worker = NoWorker
    /\ ev[1].shares = Null
    /\ \E k \in 1..(pos[1] - 1) :
          log[k].kind = "user" /\ log[k].worker = NoWorker /\ log[k].shares = 5
    /\ \E i \in UserRowsOf(View(1), <<"w1", NoWorker>>) :
          View(1).users[i].shares = Null /\ View(1).users[i].bestshare = 4

\* the first non-null value of a field among the records k..Len(upserted) of
\* a height (Null if none carries one)
RECURSIVE FirstCarried(_, _, _)
FirstCarried(k, height, field) ==
    IF k > Len(upserted) THEN Null
    ELSE IF upserted[k].height = height /\ upserted[k][field] # Null
    THEN upserted[k][field]
    ELSE FirstCarried(k + 1, height, field)

\* C18: an upsert for a height that has a row fills only the fields that are
\* null in the row, so each field of a block row holds the first non-null
\* value that a record of its height brought.
C18_UpsertFillsOnlyNulls ==
    \A p \in Procs :
        pc[p] = "ledger" =>
            \A i \in 1..Len(View(p).blocks) :
                LET row == View(p).blocks[i] IN
                /\ row.blockhash = FirstCarried(1, row.key, "blockhash")
                /\ row.reward_btc = FirstCarried(1, row.key, "reward_btc")
                /\ row.address = FirstCarried(1, row.key, "address")

\* a second record of a height has filled the reward that the row lacked
C18_Witness ==
    /\ pc[1] = "ledger"
    /\ Len(upserted) = 2
    /\ upserted[1] = BlockRec(1, 1, Null, Null, Null, 1)
    /\ upserted[2].height = 1
    /\ upserted[2].reward_btc = 3
    /\ View(1).blocks[1].reward_btc = 3

\* the first of the attempts 1..RETRIES that does not meet a lock (0: none)
FirstUnlocked ==
    IF \A i \in 1..RETRIES : attempts[i] = "locked" THEN 0
    ELSE CHOOSE i \in 1..RETRIES :
             /\ attempts[i] # "locked"
             /\ \A j \in 1..(i - 1) : attempts[j] = "locked"

\* C19: every write of an ingestion (line upsert, share insert, data commit,
\* cursor write) that meets a locked store is retried, at most RETRIES
\* attempts per statement: it fails as locked only after RETRIES locked
\* attempts, it ends, and a write of one statement succeeds at the first
\* attempt that finds the store unlocked and fails at once on an error that
\* is no lock.  (The cursor write is an INSERT and its commit.)
C19_EveryWriteRetried ==
    wres # NoResult =>
        /\ wres.tries <= 2 * RETRIES
        /\ wres.result = "locked" => wres.tries >= RETRIES
        /\ stmt # "cursor" =>
              /\ FirstUnlocked = 0 => wres = WriteResult("locked", RETRIES)
              /\ FirstUnlocked # 0 =>
                    wres = WriteResult(attempts[FirstUnlocked], FirstUnlocked)

\* the same for the data commit alone
C19_CommitRetried ==
    (wres # NoResult /\ stmt = "commit") =>
        /\ wres.tries <= RETRIES
        /\ FirstUnlocked = 0 => wres = WriteResult("locked", RETRIES)
        /\ FirstUnlocked # 0 => wres = WriteResult(attempts[FirstUnlocked], FirstUnlocked)

\* the data commit has met four locks and succeeded at the fifth attempt
C19_Witness ==
    /\ stmt = "commit"
    /\ \A i \in 1..(RETRIES - 1) : attempts[i] = "locked"
    /\ attempts[RETRIES] = "ok"
    /\ wres = WriteResult("ok", RETRIES)

\* C20: a store write of a line that fails does not end the ingest_log call:
\* when the call returns, the cursor is persisted at the offset the reader
\* reached at the end of the file, and every recognized line of the call whose
\* write did not fail, those after the failed line included, has its mutation
\* committed.
C20_FailedWriteDoesNotAbort ==
    \A p \in Procs :
        pc[p] = "done" =>
            /\ Cursor(db) = pos[p]
            /\ ~conn[p].open
            /\ \A i \in (from[p] + 1)..pos[p] :
                  (Recognized(log[i]) /\ i \notin failed) => db.applied[i] >= 1

\* the write of one line of the call failed, a later line of the same call is
\* committed, and the cursor stands at the end of the file
C20_Witness ==
    /\ pc[1] = "done"
    /\ Cursor(db) = Len(log)
    /\ \E i \in failed : \E j \in 1..Len(log) :
          /\ i > from[1]
          /\ j > i
          /\ Recognized(log[j])
          /\ db.applied[j] = 1

\* the recognized lines among the lines a call has read
RecognizedRead(p) == {i \in (from[p] + 1)..pos[p] : Recognized(log[i])}

\* C21: ingest_log returns the number of lines it read that were classified
\* as a recognized event; unrecognized lines are not counted, and a failed
\* store write of a recognized line does not change the count.
C21_CountsRecognizedLines ==
    \A p \in Procs :
        pc[p] \in {"read", "meta", "done"} => n[p] = Cardinality(RecognizedRead(p))

\* the same as long as no write of a line of the call failed
C21_CountsWithoutFailure ==
    \A p \in Procs :
        (pc[p] \in {"read", "meta", "done"} /\ failed = {}) =>
            n[p] = Cardinality(RecognizedRead(p))

\* a call has returned the count of its recognized lines, an unrecognized
\* line among those it read left out
C21_Witness ==
    /\ pc[1] = "done"
    /\ failed = {}
    /\ \E i \in (from[1] + 1)..pos[1] : ~Recognized(log[i])
    /\ n[1] >= 1
    /\ n[1] = Cardinality(RecognizedRead(1))

\* the first k lines of the log without those whose payload does not parse
WellFormed(k) == SelectSeq(SubSeq(log, 1, k), LAMBDA l : l.json)

\* C22: a pool-status or user-status line whose payload is no JSON is
\* unrecognized: it is not counted and mutates nothing, so the tables are those
\* of the well-formed lines alone, and the row of an earlier well-formed pool
\* line is committed unchanged when the call has returned.
C22_BadPayloadIsSkipped ==
    \A p \in Procs :
        /\ pc[p] \in {"read", "meta", "done"} =>
              /\ Tables(View(p)) = Tables(IngestAll(EmptyStore, WellFormed(pos[p]), 0, now))
              /\ n[p] = Cardinality({i \in (from[p] + 1)..pos[p] : log[i].json})
              /\ \A i \in 1..pos[p] : ~log[i].json => View(p).applied[i] = 0
        /\ pc[p] = "done" =>
              Tables(db) = Tables(IngestAll(EmptyStore, WellFormed(pos[p]), 0, now))

\* a pool line followed at once by a pool line with a broken payload: the call
\* returned 1 and the row of the first line is committed as written
C22_Witness ==
    /\ pc[1] = "done"
    /\ from[1] = 0
    /\ pos[1] = 2
    /\ log[1] = PoolLine(log[1].ts, 1, Null)
    /\ log[2] = BadJson(PoolLine(log[1].ts, 2, 1))
    /\ n[1] = 1
    /\ db.pool = <<[key |-> log[1].ts, users |-> 1, workers |-> Null]>>

\* every character of the text is of the worker-name class
InClass(w) == \A i \in 1..Len(w) : w[i] \in ClassChars

C24_ClassifyTwiceSame ==
    (ev[1].kind # "none" /\ ev[2].kind # "none") => ev[1] = ev[2]

\* the same for the lines whose bracketed timestamp parses, and for every
\* field but the timestamp of the others
C24_SameButClockStamp ==
    (ev[1].kind # "none" /\ ev[2].kind # "none") =>
        /\ log[1].ts \notin {NoTs, BadTs} => ev[1] = ev[2]
        /\ [ev[1] EXCEPT !.ts = 0] = [ev[2] EXCEPT !.ts = 0]

\* a line stamped at second 1 classified twice, the clock standing at 3
C24_Witness ==
    /\ now = 3
    /\ Len(log) = 1
    /\ log[1].ts = 1
    /\ ev[1].kind = "auth"
    /\ ev[1] = ev[2]

\* C25: the status of a share event, and of the share row written for it, is
\* the status word of the phrasing that matched the line, whatever the letter
\* case of the line, its worker fragment and its trailing text.
C25_StatusIsPhraseWord ==
    \A p \in Procs :
        (pc[p] = "read" /\ pos[p] > from[p] /\ ev[p].kind = "share") =>
            /\ ev[p].status = StatusOfPhrase(log[pos[p]])
            /\ View(p).shares[Len(View(p).shares)].status = StatusOfPhrase(log[pos[p]])

\* the same for the lines whose status word is spelled plainly and that carry
\* the word "accepted" nowhere else
C25_PlainLines ==
    \A p \in Procs :
        (pc[p] = "read" /\ pos[p] > from[p] /\ ev[p].kind = "share"
         /\ log[pos[p]].letters = "plain" /\ log[pos[p]].tail = ""
         /\ log[pos[p]].worker # "accepted") =>
            /\ ev[p].status = StatusOfPhrase(log[pos[p]])
            /\ View(p).shares[Len(View(p).shares)].status = StatusOfPhrase(log[pos[p]])

\* a plainly spelled rejected line has been stored as rejected
C25_Witness ==
    /\ pc[1] = "read"
    /\ pos[1] > from[1]
    /\ log[pos[1]] = ShareText(log[pos[1]].ts, "w1", "a", "rejected", "plain", "")
    /\ View(1).shares[Len(View(1).shares)].status = "rejected"

\* process p has just applied a line
Applied(p) == pc[p] = "read" /\ pc'[p] = "read" /\ pos'[p] = pos[p] + 1

\* the rows of the view of p that were inactive before the step and are
\* active after it
Reactivated(p) ==
    {i \in 1..Len(View(p).workers) : ~View(p).workers[i].active /\ View(p)'.workers[i].active}

\* C26: an inactive workers_seen row becomes active only through an
\* authorised or a share event that names its (wallet, worker); a user-status
\* event never turns an inactive row active.
C26_OnlyAuthOrShareReactivates ==
    [][\A p \in Procs :
          Applied(p) =>
              \A i \in Reactivated(p) :
                  /\ ev'[p].kind \in {"auth", "share"}
                  /\ View(p).workers[i].key = <<ev'[p].wallet, ev'[p].worker>>]_vars

\* the same for the events that are no user-status events
C26_OtherEventsReactivateNamedRow ==
    [][\A p \in Procs :
          (Applied(p) /\ ev'[p].kind # "user") =>
              \A i \in Reactivated(p) :
                  /\ ev'[p].kind \in {"auth", "share"}
                  /\ View(p).workers[i].key = <<ev'[p].wallet, ev'[p].worker>>]_vars

\* an authorised line has been applied to the row that a dropped line made
\* inactive
C26_Witness ==
    /\ pc[1] = "read"
    /\ pos[1] >= 2
    /\ log[pos[1] - 1].kind = "drop"
    /\ log[pos[1] - 1].worker = "a"
    /\ ev[1].kind = "auth"
    /\ ev[1].worker = "a"
    /\ RowOf(1, "w1", "a").active

\* the pair is in the active_workers list of its wallet's row of the snapshot
Listed(snap, wallet, worker) ==
    \E k \in 1..Len(snap.users) :
        /\ snap.users[k].wallet = wallet
        /\ \E j \in 1..Len(snap.users[k].active_workers) :
              snap.users[k].active_workers[j] = worker

\* the lines lo..hi of the log that are events of the kinds for the pair (a
\* user-status event names the wallet alone)
EventsOf(lo, hi, kinds, wallet, worker) ==
    {i \in lo..hi :
        LET e == Classify(log[i], now)
        IN /\ e.kind \in kinds
           /\ e.wallet = wallet
           /\ e.kind # "user" => e.worker = worker}

AllKinds == {"auth", "share", "user", "drop"}

\* the build of process p, which read the lines from[p]+1 .. pos[p], lists a
\* name whose row the build before it knew and did not list
BackInList(p, w) ==
    /\ pc[p] = "assign"
    /\ EventsOf(1, from[p], {"auth", "share", "drop"}, "w1", w) # {}
    /\ ~Listed(snapshot, "w1", w)
    /\ Listed(res[p], "w1", w)

\* C27: a worker whose row gets no refreshing event (authorised, share,
\* user-status refresh) is absent from active_workers once now - last_seen >
\* WORKER_TIMEOUT and stays absent until a new refreshing event: a name that
\* one build left out and the next build lists has a refreshing event among
\* the lines read in between.
C27_AbsentUntilRefreshed ==
    \A p \in Procs :
        \A w \in WorkerNames \cup {X} :
            BackInList(p, w) =>
                EventsOf(from[p] + 1, pos[p], {"auth", "share", "user"}, "w1", w) # {}

\* the same, with a dropped event counted among the events that bring a name
\* back
C27_AbsentUntilTouched ==
    \A p \in Procs :
        \A w \in WorkerNames \cup {X} :
            BackInList(p, w) =>
                EventsOf(from[p] + 1, pos[p], AllKinds, "w1", w) # {}

\* a name that a build lists has a last_seen within the window of the build,
\* and a row outside the window is not listed
C27_ListedWithinWindow ==
    \A p \in Procs :
        pc[p] = "assign" =>
            \A i \in 1..Len(db.workers) :
                LET row == db.workers[i]
                IN row.key[1] = "w1" =>
                      (Listed(res[p], "w1", row.key[2])
                          <=> row.last_seen >= bnow[p] - WORKER_TIMEOUT)

\* the stored row of w1.a is past its window
StaleInStore ==
    \E i \in 1..Len(db.workers) :
        /\ db.workers[i].key = <<"w1", "a">>
        /\ now - db.workers[i].last_seen > WORKER_TIMEOUT

\* while builds keep being made, a row past its window leaves the cached
\* snapshot, unless an event moves its last_seen first
C27_EventuallyAbsent ==
    StaleInStore ~> (~Listed(snapshot, "w1", "a") \/ ~StaleInStore)

\* a build lists w1.a again, which the build before it had left out because
\* the row was past its window
C27_Witness ==
    /\ BackInList(1, "a")
    /\ \E i \in 1..from[1] :
          log[i].kind = "auth" /\ log[i].ts # NoTs /\ bnow[1] - log[i].ts > WORKER_TIMEOUT

\* the rows of process p's view whose last_seen the step lowers
Lowered(p) ==
    {i \in 1..Len(View(p).workers) :
        View(p)'.workers[i].last_seen < View(p).workers[i].last_seen}

\* C28: over any sequence of ingested events (authorised, dropped, share,
\* user-status refresh) the last_seen value of a workers_seen row never
\* decreases.
C28_LastSeenNeverDecreases ==
    [][\A p \in Procs : Applied(p) => Lowered(p) = {}]_vars

\* the same for a log whose recognized lines all carry a timestamp (ckpool
\* stamps them in the order it writes them)
C28_AscendingStampsNeverDecrease ==
    [][\A p \in Procs : (Applied(p) /\ Stamped(log)) => Lowered(p) = {}]_vars

\* a line without a timestamp set the row of w1.a to the second of the read,
\* and the line after it, written earlier, has just been applied
C28_Witness ==
    /\ pc[1] = "read"
    /\ pos[1] >= 2
    /\ log[pos[1] - 1].ts = NoTs
    /\ log[pos[1] - 1].kind = "auth"
    /\ log[pos[1]].kind \in {"auth", "drop", "share"}
    /\ log[pos[1]].worker = "a"
    /\ log[pos[1]].ts < now
    /\ RowOf(1, "w1", "a").last_seen = log[pos[1]].ts

\* line i of the log is an authorised, dropped or share event that names the
\* pair
Names(i, key) ==
    LET e == Classify(log[i], 1)
    IN /\ e.kind \in {"auth", "drop", "share"}
       /\ <<e.wallet, e.worker>> = key

\* the last of the lines lo+1..hi for which P holds (0: there is none)
LastLine(lo, hi, P(_)) ==
    IF \E i \in (lo + 1)..hi : P(i)
    THEN CHOOSE i \in (lo + 1)..hi : P(i) /\ \A j \in (i + 1)..hi : ~P(j)
    ELSE 0

\* the row carries the flag and the timestamp that line i writes (a line
\* without a timestamp writes the second it was read in)
WrittenBy(row, i) ==
    LET e == Classify(log[i], row.last_seen)
    IN /\ row.last_seen = e.ts
       /\ row.last_seen \in 1..now
       /\ row.active = (e.kind # "drop")

\* line j is a user-status line of the wallet
UserOf(j, wallet) ==
    LET e == Classify(log[j], 1) IN e.kind = "user" /\ e.wallet = wallet

\* C29: after an ingest_log call each workers_seen row carries the active flag
\* and the timestamp written by the last line of the file that touched it (the
\* last line naming the pair, or a user-status line of the wallet after it),
\* and each user_stats row the values of the last user-status line of its
\* address.
C29_LastLineWins ==
    \A p \in Procs :
        pc[p] = "done" =>
            /\ \A r \in 1..Len(db.workers) :
                  LET row == db.workers[r]
                      i == LastLine(from[p], pos[p], LAMBDA k : Names(k, row.key))
                  IN i # 0 =>
                        \/ WrittenBy(row, i)
                        \/ \E j \in (i + 1)..pos[p] :
                              UserOf(j, row.key[1]) /\ WrittenBy(row, j)
            /\ \A u \in 1..Len(db.users) :
                  LET row == db.users[u]
                      j == LastLine(from[p], pos[p],
                                    LAMBDA k : UserOf(k, row.key[1])
                                               /\ Classify(log[k], 1).worker = row.key[2])
                  IN j # 0 => RowIsEvent(row, Classify(log[j], row.ts))

\* a call has read a line naming w1.a that the read stamped and then a dropped
\* line of the pair written before the read, whose flag and stamp the row has
C29_Witness ==
    /\ pc[1] = "done"
    /\ pos[1] - from[1] >= 2
    /\ log[pos[1] - 1] = AuthLine(NoTs, "w1", "a")
    /\ log[pos[1]].kind = "drop"
    /\ log[pos[1]].ts < now
    /\ \E r \in 1..Len(db.workers) :
          /\ db.workers[r].key = <<"w1", "a">>
          /\ ~db.workers[r].active
          /\ db.workers[r].last_seen = log[pos[1]].ts

\* a call has read two user-status lines of one address with different
\* values, and the row has those of the second
C29_WitnessUsers ==
    /\ pc[1] = "done"
    /\ pos[1] - from[1] >= 2
    /\ log[pos[1] - 1].kind = "user" /\ log[pos[1]].kind = "user"
    /\ log[pos[1] - 1].shares = 7 /\ log[pos[1]].shares = 5
    /\ \E u \in 1..Len(db.users) : db.users[u].shares = 5

\* the row is active and past the timeout at the time of the sweep
ActiveAndStale(row, now_ts) == row.active /\ now_ts - row.last_seen > WORKER_TIMEOUT

\* C30: a second expiry sweep with the same now and timeout leaves the store
\* as the first left it, and a sweep changes nothing but the active flag of
\* the rows that are active and stale: last_seen values, rows already
\* inactive, rows within the timeout and all other tables are unchanged, and
\* no row is deleted.
C30_SweepIdempotentAndFramed ==
    \A p \in Procs :
        pc[p] = "query" =>
            LET swept == View(p) IN
            /\ ExpireStaleWorkers(swept.workers, bnow[p], WORKER_TIMEOUT) = swept.workers
            /\ [swept EXCEPT !.workers = db.workers] = db
            /\ Len(swept.workers) = Len(db.workers)
            /\ \A i \in 1..Len(db.workers) :
                  IF ActiveAndStale(db.workers[i], bnow[p])
                  THEN swept.workers[i] = [db.workers[i] EXCEPT !.active = FALSE]
                  ELSE swept.workers[i] = db.workers[i]

\* a sweep has turned one row inactive and left alone an active row within the
\* timeout
C30_Witness ==
    /\ pc[1] = "query"
    /\ \E i, j \in 1..Len(db.workers) :
          /\ ActiveAndStale(db.workers[i], bnow[1])
          /\ ~View(1).workers[i].active
          /\ db.workers[j].active
          /\ bnow[1] - db.workers[j].last_seen = WORKER_TIMEOUT
          /\ View(1).workers[j].active

\* the line matches no dialect: it has none of the five shapes, or it is a
\* pool or user line whose payload is no JSON
Unrecognized(line) ==
    \/ line.kind = "junk"
    \/ line.kind \in {"pool", "user"} /\ ~line.json

\* every line that the call of process p read is unrecognized
ReadOnlyUnrecognized(p) ==
    /\ pos[p] > from[p]
    /\ \A i \in (from[p] + 1)..pos[p] : Unrecognized(log[i])

\* C31: a line that matches no dialect changes no data table and is not
\* counted; a call that reads only such lines returns 0 and changes nothing in
\* the store but the cursor, which it sets to the end of the file it read.
C31_UnrecognizedChangesNothing ==
    [][\A p \in Procs :
          /\ (Applied(p) /\ Unrecognized(log[pos'[p]])) =>
                /\ View(p)' = View(p)
                /\ db' = db
                /\ n'[p] = n[p]
          /\ (pc[p] = "read" /\ pc'[p] = "meta") =>
                /\ pos[p] = Len(log)
                /\ ReadOnlyUnrecognized(p) => db' = db
          /\ (pc[p] = "meta" /\ pc'[p] = "done" /\ ReadOnlyUnrecognized(p)) =>
                /\ n[p] = 0
                /\ db' = [db EXCEPT !.cursor = pos[p]]]_vars

\* a call on a store that holds rows has read nothing but unrecognized lines,
\* one of them a pool line with a broken payload, and has returned
C31_Witness ==
    /\ pc[1] = "done"
    /\ from[1] >= 1
    /\ pos[1] = from[1] + 2
    /\ ReadOnlyUnrecognized(1)
    /\ log[pos[1]].kind = "pool"
    /\ n[1] = 0
    /\ db.cursor = pos[1]
    /\ db.workers # << >>

\* the snapshot that the queries of a build made at now_ts give on the
\* committed store (the sweep of the build included)
OfCommitted(now_ts) ==
    BuildSnapshot([db EXCEPT !.workers = ExpireStaleWorkers(@, now_ts, WORKER_TIMEOUT)],
                  now_ts)

\* C32: a build whose ingest failed (its commit or its cursor write stayed
\* locked) still returns a snapshot, and the snapshot shows only what is
\* committed in the store: no row or value of a transaction that was never
\* committed.
C32_SnapshotShowsCommittedOnly ==
    \A p \in Procs : pc[p] = "assign" => res[p] = OfCommitted(bnow[p])

\* the same for the builds of a run in which no ingest failed
C32_CommittedWhenIngestSucceeds ==
    \A p \in Procs :
        (pc[p] = "assign" /\ crashes = 0) => res[p] = OfCommitted(bnow[p])

\* a build whose ingest failed returned a snapshot that lists w1.a while the
\* committed store has no workers_seen row
C32_Witness ==
    /\ pc[1] = "assign"
    /\ crashes >= 1
    /\ db.workers = << >>
    /\ Listed(res[1], "w1", "a")

\* C33: the persisted cursor of a log file never decreases over ingest_log
\* calls on a growing file, calls that run concurrently on separate
\* connections included: a call that finishes later never replaces a larger
\* committed cursor by a smaller one.
C33_CursorNeverDecreases ==
    [][Cursor(db') >= Cursor(db)]_vars

\* the call of process 1 met the end of the file before the file grew, and
\* the call of process 2 has committed a cursor beyond it
C33_Witness ==
    /\ pc[1] = "meta"
    /\ pc[2] \in {"done", "idle"}
    /\ db.cursor # Null
    /\ pos[1] < db.cursor

\* the share lines of the log
ShareLines == {i \in 1..Len(log) : Classify(log[i], now).kind = "share"}

\* C34: when two ingest_log calls run concurrently on the same log file and
\* the same store, each on its own connection and neither crashing, every
\* share line of the file is recorded in the share log at most once: no share
\* line has had its INSERT committed twice, and the share log has no more rows
\* than the file has share lines.
C34_ShareRecordedAtMostOnce ==
    /\ \A i \in ShareLines : db.applied[i] <= 1
    /\ Len(db.shares) <= Cardinality(ShareLines)

\* both calls began at the same cursor, both read the one share line of the
\* file and both have returned
C34_Witness ==
    /\ pc[1] = "done"
    /\ pc[2] = "done"
    /\ from[1] = from[2]
    /\ pos[1] > from[1]
    /\ pos[2] > from[2]
    /\ \E i \in (from[1] + 1)..pos[1] : log[i].kind = "share"
    /\ crashes = 0

\* C35: after any ingest_log call, whatever from_bytes was passed, the
\* persisted cursor is at most the length of the log file, so that lines
\* appended later are not skipped by a following call with from_bytes = 0.
C35_CursorWithinFile ==
    Cursor(db) <= Len(log)

\* the same for the calls that were passed an offset within the file
C35_WithinFileWhenStartIs ==
    \A p \in Procs :
        (pc[p] = "done" /\ from[p] <= pos[p] /\ from[p] <= Len(log)
            /\ Cursor(db) = pos[p]) => Cursor(db) <= Len(log)

\* a call that was passed an offset past the end of the file has returned,
\* and the cursor it stored is beyond the file
C35_Witness ==
    /\ pc[1] = "done"
    /\ from[1] > Len(log)
    /\ db.cursor = from[1]
    /\ Len(log) >= 1

\* the cached snapshot has a pool object or a user row
NonEmpty(snap) == snap.pool # NoPool \/ snap.users # << >>

\* process p makes a snapshot() call in this step
CallsSnapshot(p) == pc[p] = "idle" /\ ~ret[p].inside /\ ret'[p] # ret[p]

\* C36: a snapshot() call on a CKPoolState whose cached snapshot is not empty
\* returns the cached snapshot as it is: no ingestion, no expiry sweep and no
\* rebuild begins, and the store, the cursor and the last-refresh timestamp
\* are unchanged, however old the cache is; a rebuild begins only in a
\* refresh() call, made by the caller or by snapshot() on an empty cache.
C36_CachedSnapshotReturnedAsIs ==
    [][\A p \in Procs :
          /\ (CallsSnapshot(p) /\ NonEmpty(snapshot)) =>
                /\ ret'[p] = [inside |-> FALSE, val |-> snapshot]
                /\ UNCHANGED <<db, conn, pc, snapshot, last_refresh_ts, builds, log>>
          /\ (CallsSnapshot(p) /\ pc'[p] # "idle") => ~NonEmpty(snapshot)
          /\ builds' # builds => \E q \in Procs : pc[q] = "set"]_vars

\* a snapshot() call has returned a cache with a user row that was built
\* before the clock moved on and before the log grew
C36_Witness ==
    /\ pc[1] = "idle"
    /\ ~ret[1].inside
    /\ ret[1].val = snapshot
    /\ snapshot.users # << >>
    /\ last_refresh_ts # 0
    /\ now > last_refresh_ts + 1
    /\ Cursor(db) < Len(log)

====
